---- MODULE Spec2Model ----
(***************************************************************************)
(* The workout-plan generation handler of athleto (POST /api/generate-     *)
(* workout) in its four revisions: route.ts, part_000, part_001, part_002. *)
(* One request runs through: configuration check, inbound validation,      *)
(* profile lookup, rest-day derivation, generation call, parsing/repair,   *)
(* persistence (goal -> plan -> workouts -> exercises), response.          *)
(*                                                                         *)
(* Conventions of the model                                                *)
(*  - a JSON value is a tagged record: Str, Num, Arr, Undefined.  A number *)
(*    is kept as twice its value so that x.5 is representable.             *)
(*  - a text is a sequence of one-character strings, or, for the model     *)
(*    output, a sequence of tokens ("{" carrying the object's scalar       *)
(*    members, "}", a prose character, a code fence).                      *)
(*  - an error message is a sequence of words; String.includes(w) is       *)
(*    containment of the word w.                                           *)
(*  - a store insert is two events: the handler issues it ("inflight") and *)
(*    the store answers it (row written and id returned, or an error).     *)
(*    supabase-js resolves with {data, error}; it never rejects.           *)
(***************************************************************************)
EXTENDS Integers, Sequences, FiniteSets, TLC

\* ------------------------------------------------------------------ bounds
\* workouts of a generated plan, exercises of one workout, exercises of a plan
MaxWorkouts == 2
MaxExercises == 2
MaxPlanExercises == 4

\* ------------------------------------------------------------- vocabulary
VALID_MUSCLE_GROUPS ==
  <<"chest", "back", "shoulders", "biceps", "triceps", "forearms", "core",
    "quadriceps", "hamstrings", "calves", "glutes", "traps", "lats", "lower_back">>

VALID_WORKOUT_TYPES ==
  <<"powerlifting", "bodyweight", "hiit", "strength", "cardio", "crossfit",
    "endurance", "circuit", "isolation">>

VALID_DIFFICULTIES == <<"beginner", "intermediate", "advanced">>

Variants == {"route", "part_000", "part_001", "part_002"}

Range(s) == {s[i] : i \in DOMAIN s}

\* Array.prototype.includes
Includes(arr, x) == \E i \in DOMAIN arr : arr[i] = x

\* ------------------------------------------------------------ JSON values
Undefined == [t |-> "undefined"]
Str(s) == [t |-> "string", s |-> s]
\* a string whose characters matter (a duration), kept as a character sequence
Text(chars) == [t |-> "string", chars |-> chars]
Num(n) == [t |-> "number", twice |-> 2 * n]
NumHalf(n) == [t |-> "number", twice |-> 2 * n + 1]
Arr(a) == [t |-> "array", a |-> a]

IsString(x) == x.t = "string"
IsNumber(x) == x.t = "number"
IsArray(x) == x.t = "array"
\* Number.isInteger / z.number().int()
IsInteger(x) == IsNumber(x) /\ x.twice % 2 = 0

\* length of a string value; a symbolic non-empty string counts as 1
StringLength(x) ==
  IF "chars" \in DOMAIN x THEN Len(x.chars) ELSE IF x.s = "" THEN 0 ELSE 1

\* JavaScript truthiness of a decoded JSON value ("!x" is ~Truthy(x))
Truthy(x) ==
  CASE x.t = "undefined" -> FALSE
    [] x.t = "string" -> StringLength(x) > 0
    [] x.t = "number" -> x.twice # 0
    [] OTHER -> TRUE

\* ToIntegerOrInfinity of the number held as twice its value (truncation)
TruncTwice(tw) == IF tw >= 0 THEN tw \div 2 ELSE -((-tw) \div 2)

Max(a, b) == IF a >= b THEN a ELSE b
Min(a, b) == IF a <= b THEN a ELSE b

\* Array.prototype.slice(0, end) with end already an integer
Slice0(arr, end) ==
  LET n == Len(arr)
      e == IF end < 0 THEN Max(n + end, 0) ELSE Min(end, n)
  IN SubSeq(arr, 1, e)

\* Array.prototype.sort((a, b) => a - b) on integers: insertion sort
RECURSIVE InsertSorted(_, _)
InsertSorted(x, s) ==
  IF s = <<>> THEN <<x>>
  ELSE IF x < Head(s) THEN <<x>> \o s
       ELSE <<Head(s)>> \o InsertSorted(x, Tail(s))

RECURSIVE SortAscending(_)
SortAscending(s) ==
  IF s = <<>> THEN <<>> ELSE InsertSorted(Head(s), SortAscending(Tail(s)))

\* every ordering of a finite set, as sequences
RECURSIVE Perms(_)
Perms(S) ==
  IF S = {} THEN {<<>>}
  ELSE UNION {{<<x>> \o p : p \in Perms(S \ {x})} : x \in S}

\* [1, 2, 3, 4, 5, 6, 7]
allDays == <<1, 2, 3, 4, 5, 6, 7>>

\* The outcomes of [...allDays].sort(() => 0.5 - Math.random()): the comparator
\* is inconsistent, so the order is implementation-defined, but the result is
\* always a rearrangement of the same seven elements.
Shuffles == Perms(Range(allDays))

\* ------------------------------------------------------------- exceptions
\* a thrown value: its class and its message (a sequence of words)
Exception(cls, message) == [cls |-> cls, message |-> message]
NoException == [cls |-> "none", message |-> <<>>]

\* String.prototype.includes on a message, word by word
MessageIncludes(message, word) == \E i \in DOMAIN message : message[i] = word

\* ---------------------------------------------------- route.ts: helpers
\* (mutant) validateRestDays without the final sort
validateRestDays_unsorted(daysPerWeek, shuffled) ==
  Slice0(shuffled, TruncTwice(14 - daysPerWeek.twice))

\* route.ts validateRestDays, given the outcome of the shuffle
validateRestDays_route(daysPerWeek, shuffled) ==
  LET restDaysCountTwice == 14 - daysPerWeek.twice
  IN SortAscending(Slice0(shuffled, TruncTwice(restDaysCountTwice)))

\* part_000 validateRestDays: throws on a count outside 0..6
validateRestDays_000(daysPerWeek, shuffled) ==
  LET restDaysCountTwice == 14 - daysPerWeek.twice
  IN IF restDaysCountTwice < 0 \/ restDaysCountTwice > 12
     THEN [ok |-> FALSE, v |-> <<>>,
           err |-> Exception("Error", <<"Invalid", "days", "per", "week">>)]
     ELSE [ok |-> TRUE,
           v |-> SortAscending(Slice0(shuffled, TruncTwice(restDaysCountTwice))),
           err |-> NoException]

\* Array.from({ length: 7 - daysPerWeek }, (_, i) => i + 1): ToLength clamps
ArrayFromLength(daysPerWeek) ==
  LET n == Max(TruncTwice(14 - daysPerWeek.twice), 0)
  IN [i \in 1..n |-> i]

IsValidMuscle(m) == Includes(VALID_MUSCLE_GROUPS, m)

\* route.ts validateMuscleGroups: filter to the vocabulary
validateMuscleGroups_route(muscles) == SelectSeq(muscles, IsValidMuscle)

\* part_000 validateMuscleGroups: filter, and throw when nothing is left
validateMuscleGroups_000(muscles) ==
  LET validatedMuscles == SelectSeq(muscles, IsValidMuscle)
  IN IF Len(validatedMuscles) = 0
     THEN [ok |-> FALSE, v |-> <<>>,
           err |-> Exception("Error", <<"No", "valid", "muscle", "groups", "provided">>)]
     ELSE [ok |-> TRUE, v |-> validatedMuscles, err |-> NoException]

\* ---------------------------------------------------------- parseInterval
Digits == <<"0", "1", "2", "3", "4", "5", "6", "7", "8", "9">>
IsDigit(ch) == Includes(Digits, ch)
DigitValue(ch) == (CHOOSE i \in DOMAIN Digits : Digits[i] = ch) - 1

\* the value of a short string of digits
RECURSIVE DigitsValue(_)
DigitsValue(ds) ==
  IF ds = <<>> THEN 0
  ELSE 10 * DigitsValue(SubSeq(ds, 1, Len(ds) - 1)) + DigitValue(ds[Len(ds)])

\* a digit string without its leading zeros: empty for the value 0
RECURSIVE Significant(_)
Significant(ds) ==
  IF ds = <<>> \/ Head(ds) # "0" THEN ds ELSE Significant(Tail(ds))

\* parseInt of a string of digits only: NaN for the empty string, else the
\* number, held as its significant decimal digits (digit strings of more than
\* 15 significant digits are drawn with trailing zeros only, so that the
\* double nearest to them has these digits)
parseInt(ds) == [nan |-> ds = <<>>, digits |-> Significant(ds)]

\* String(n) for n >= 0
RECURSIVE NumberToString(_)
NumberToString(n) ==
  IF n < 10 THEN <<Digits[n + 1]>>
  ELSE NumberToString(n \div 10) \o <<Digits[(n % 10) + 1]>>

\* a digit string without its trailing zeros
RECURSIVE Mantissa(_)
Mantissa(ds) ==
  IF ds = <<>> \/ ds[Len(ds)] # "0" THEN ds ELSE Mantissa(SubSeq(ds, 1, Len(ds) - 1))

\* Number::toString of a non-negative integer held as its significant digits:
\* decimal digits below 10^21, exponential notation from 10^21 on
NumberText(digits) ==
  IF digits = <<>> THEN <<"0">>
  ELSE IF Len(digits) <= 21 THEN digits
  ELSE LET m == Mantissa(digits)
       IN <<Head(m)>> \o (IF Len(m) > 1 THEN <<".">> \o Tail(m) ELSE <<>>)
          \o <<"e", "+">> \o NumberToString(Len(digits) - 1)

MinutesSuffix == <<" ", "m", "i", "n", "u", "t", "e", "s">>
ThirtyMinutes == <<"3", "0">> \o MinutesSuffix

\* duration.replace(/[^0-9]/g, '')
StripNonDigits(duration) == SelectSeq(duration, IsDigit)

\* route.ts parseInterval
parseInterval_route(duration) ==
  LET minutes == parseInt(StripNonDigits(duration))
  IN IF minutes.nan THEN ThirtyMinutes
     ELSE NumberText(minutes.digits) \o MinutesSuffix

\* part_000 parseInterval
parseInterval_000(duration) ==
  LET minutes == parseInt(StripNonDigits(duration))
  IN IF minutes.nan \/ minutes.digits = <<>> THEN ThirtyMinutes
     ELSE NumberText(minutes.digits) \o MinutesSuffix

\* ----------------------------------------------------------- request body
\* the identifiers z.string().uuid() accepts
WellFormedUuids == {"uuid-1", "uuid-2"}

IsEnumMember(x, enum) == IsString(x) /\ "s" \in DOMAIN x /\ Includes(enum, x.s)

\* z.array(z.enum(VALID_MUSCLE_GROUPS)) on an array of strings
IsMuscleArray(x) == IsArray(x) /\ \A i \in DOMAIN x.a : IsValidMuscle(x.a[i])

\* z.array(z.string()) on an array of strings
IsStringArray(x) == IsArray(x) /\ \A i \in DOMAIN x.a : x.a[i] \in STRING

\* route.ts: the presence test on the body
MissingRequiredFields(body) ==
  \/ ~Truthy(body.userId)
  \/ ~Truthy(body.goalType)
  \/ ~Truthy(body.workoutType)
  \/ ~Truthy(body.durationWeeks)
  \/ ~Truthy(body.daysPerWeek)
  \/ ~Truthy(body.focusMuscles)

\* part_000 RequestBodySchema
RequestBodySchema_000(body) ==
  /\ IsString(body.userId) /\ body.userId.s \in WellFormedUuids
  /\ IsString(body.goalType) /\ StringLength(body.goalType) >= 1
  /\ IsEnumMember(body.workoutType, VALID_WORKOUT_TYPES)
  /\ IsInteger(body.durationWeeks)
  /\ body.durationWeeks.twice > 0 /\ body.durationWeeks.twice <= 2 * 52
  /\ IsInteger(body.daysPerWeek)
  /\ body.daysPerWeek.twice >= 2 * 1 /\ body.daysPerWeek.twice <= 2 * 7
  /\ IsMuscleArray(body.focusMuscles) /\ Len(body.focusMuscles.a) >= 1

\* part_001 RequestBodySchema
RequestBodySchema_001(body) ==
  /\ IsString(body.userId) /\ body.userId.s \in WellFormedUuids
  /\ IsString(body.goalType)
  /\ IsEnumMember(body.workoutType, VALID_WORKOUT_TYPES)
  /\ IsInteger(body.durationWeeks)
  /\ body.durationWeeks.twice > 0 /\ body.durationWeeks.twice <= 2 * 52
  /\ IsInteger(body.daysPerWeek)
  /\ body.daysPerWeek.twice >= 2 * 1 /\ body.daysPerWeek.twice <= 2 * 7
  /\ IsMuscleArray(body.focusMuscles)

\* part_002 RequestBodySchema
RequestBodySchema_002(body) ==
  /\ IsString(body.userId)
  /\ IsString(body.goalType)
  /\ IsEnumMember(body.workoutType, VALID_WORKOUT_TYPES)
  /\ IsNumber(body.durationWeeks)
  /\ IsNumber(body.daysPerWeek)
  /\ IsMuscleArray(body.focusMuscles)

\* what the inbound contract of the spec asks of the four checked fields
ValidDaysPerWeek(body) ==
  IsInteger(body.daysPerWeek) /\ body.daysPerWeek.twice \in {2 * d : d \in 1..7}
ValidDurationWeeks(body) ==
  IsInteger(body.durationWeeks) /\ body.durationWeeks.twice \in {2 * d : d \in 1..52}
ValidFocusMuscles(body) ==
  IsMuscleArray(body.focusMuscles) /\ Len(body.focusMuscles.a) >= 1
ValidWorkoutType(body) == IsEnumMember(body.workoutType, VALID_WORKOUT_TYPES)

\* the sample bodies: a valid body, and each single-field departure from it
BaseBody ==
  [userId |-> Str("uuid-1"), goalType |-> Str("muscle_gain"),
   workoutType |-> Str("strength"), durationWeeks |-> Num(4),
   daysPerWeek |-> Num(7), focusMuscles |-> Arr(<<"chest", "back">>)]

Bodies ==
  {BaseBody, [BaseBody EXCEPT !.daysPerWeek = Num(6)],
   [BaseBody EXCEPT !.daysPerWeek = Num(5)]}
  \cup {[BaseBody EXCEPT !.userId = x] : x \in {Undefined, Str("not-a-uuid")}}
  \cup {[BaseBody EXCEPT !.goalType = Str("")]}
  \cup {[BaseBody EXCEPT !.workoutType = Str("yoga")]}
  \cup {[BaseBody EXCEPT !.durationWeeks = x] : x \in {Num(0), Num(53), NumHalf(1)}}
  \cup {[BaseBody EXCEPT !.daysPerWeek = x] : x \in {Num(0), Num(8), NumHalf(6)}}
  \cup {[BaseBody EXCEPT !.focusMuscles = x] :
          x \in {Arr(<<>>), Arr(<<"chest", "wings">>)}}

\* ------------------------------------------------- the model output: text
\* A text is a sequence of tokens.  "{" opens an object and carries its scalar
\* members (v) and the name of its one array member (key); the objects up to
\* the matching "}" are the elements of that array.
Open(v, key) == [c |-> "{", v |-> v, key |-> key]
Close == [c |-> "}"]
Prose == [c |-> "w"]
Fence == [c |-> "fence"]

IsBrace(tok) == tok.c \in {"{", "}"}
IsFence(tok) == tok.c = "fence"
NotFence(tok) == ~IsFence(tok)

\* planContent.replace(<code fence markers>, '').trim()
StripFences(planContent) == SelectSeq(planContent, NotFence)

ParseFailure == [ok |-> FALSE]

\* JSON.parse of one object starting at token i
RECURSIVE ParseObject(_, _)
RECURSIVE ParseElements(_, _)
ParseObject(toks, i) ==
  IF i > Len(toks) \/ toks[i].c # "{" THEN ParseFailure
  ELSE LET k == ParseElements(toks, i + 1)
       IN IF ~k.ok THEN ParseFailure
          ELSE [ok |-> TRUE, next |-> k.next,
                val |-> [v |-> toks[i].v, key |-> toks[i].key, kids |-> k.kids]]

ParseElements(toks, i) ==
  IF i > Len(toks) THEN ParseFailure
  ELSE IF toks[i].c = "}" THEN [ok |-> TRUE, kids |-> <<>>, next |-> i + 1]
  ELSE IF toks[i].c = "{"
       THEN LET o == ParseObject(toks, i)
            IN IF ~o.ok THEN ParseFailure
               ELSE LET rest == ParseElements(toks, o.next)
                    IN IF ~rest.ok THEN ParseFailure
                       ELSE [ok |-> TRUE, kids |-> <<o.val>> \o rest.kids,
                             next |-> rest.next]
       ELSE ParseFailure

\* JSON.parse(text): the whole text must be one object
JSONParse(toks) ==
  LET o == ParseObject(toks, 1)
  IN IF o.ok /\ o.next = Len(toks) + 1 THEN [ok |-> TRUE, val |-> o.val]
     ELSE ParseFailure

\* JSON.stringify of a decoded object
RECURSIVE JSONStringify(_)
RECURSIVE StringifyAll(_)
JSONStringify(obj) == <<Open(obj.v, obj.key)>> \o StringifyAll(obj.kids) \o <<Close>>
StringifyAll(objs) ==
  IF objs = <<>> THEN <<>>
  ELSE JSONStringify(Head(objs)) \o StringifyAll(Tail(objs))

\* /\{(?:[^{}]|(\{[^{}]*\}))*\}/ : first index >= j of a brace (or Len + 1)
RECURSIVE SkipNonBrace(_, _)
SkipNonBrace(toks, j) ==
  IF j > Len(toks) \/ IsBrace(toks[j]) THEN j ELSE SkipNonBrace(toks, j + 1)

\* end of the greedy run (?:[^{}]|(\{[^{}]*\}))* that starts at j
RECURSIVE ItemsEnd(_, _)
ItemsEnd(toks, j) ==
  IF j > Len(toks) THEN j
  ELSE IF ~IsBrace(toks[j]) THEN ItemsEnd(toks, j + 1)
  ELSE IF toks[j].c = "{"
       THEN LET k == SkipNonBrace(toks, j + 1)
            IN IF k <= Len(toks) /\ toks[k].c = "}" THEN ItemsEnd(toks, k + 1) ELSE j
       ELSE j

RegexMatchesAt(toks, i) ==
  /\ toks[i].c = "{"
  /\ LET j == ItemsEnd(toks, i + 1) IN j <= Len(toks) /\ toks[j].c = "}"

\* cleanJSON.match(...): the leftmost match, or none
RegexMatch(toks) ==
  IF \E i \in DOMAIN toks : RegexMatchesAt(toks, i)
  THEN LET i == CHOOSE a \in DOMAIN toks :
                  RegexMatchesAt(toks, a) /\ \A b \in 1..(a - 1) : ~RegexMatchesAt(toks, b)
       IN [found |-> TRUE, text |-> SubSeq(toks, i, ItemsEnd(toks, i + 1))]
  ELSE [found |-> FALSE, text |-> <<>>]

\* ------------------------------------------------------ decoded plan value
Member(obj, name) == IF name \in DOMAIN obj.v THEN obj.v[name] ELSE Undefined
HasArray(obj, key) == obj.key = key

ExerciseOf(obj) ==
  [name |-> Member(obj, "name"), description |-> Member(obj, "description"),
   equipment_needed |-> Member(obj, "equipment_needed"),
   sets |-> Member(obj, "sets"),
   reps |-> Member(obj, "reps"), rest_duration |-> Member(obj, "rest_duration"),
   order_in_workout |-> Member(obj, "order_in_workout"),
   primary_muscles |-> Member(obj, "primary_muscles"),
   secondary_muscles |-> Member(obj, "secondary_muscles"),
   exercise_type |-> Member(obj, "exercise_type")]

WorkoutOf(obj) ==
  [name |-> Member(obj, "name"), description |-> Member(obj, "description"),
   day_of_week |-> Member(obj, "day_of_week"),
   estimated_duration |-> Member(obj, "estimated_duration"),
   workout_type |-> Member(obj, "workout_type"),
   hasExercises |-> HasArray(obj, "exercises"),
   exercises |-> [j \in DOMAIN obj.kids |-> ExerciseOf(obj.kids[j])]]

PlanOf(obj) ==
  [description |-> Member(obj, "description"), difficulty |-> Member(obj, "difficulty"),
   restDays |-> Member(obj, "restDays"),
   hasWorkouts |-> HasArray(obj, "workouts"),
   workouts |-> [i \in DOMAIN obj.kids |-> WorkoutOf(obj.kids[i])]]

NoPlan ==
  [description |-> Undefined, difficulty |-> Undefined, restDays |-> Undefined,
   hasWorkouts |-> FALSE, workouts |-> <<>>]

\* --------------------------------------------------------- plan validation
Thrown(cls, message) == [ok |-> FALSE, plan |-> NoPlan, err |-> Exception(cls, message)]
Parsed(plan) == [ok |-> TRUE, plan |-> plan, err |-> NoException]

\* the engine's message for JSON.parse's SyntaxError
SyntaxErrorMessage == <<"Unexpected", "token", "in", "JSON">>
\* the engine's message for a member read or a call on undefined
TypeErrorMessage == <<"Cannot", "read", "properties", "of", "undefined">>

InvalidRestDay(day) ==
  ~IsInteger(day) \/ day.twice < 2 * 1 \/ day.twice > 2 * 7

RepairExercise(ex) ==
  [ex EXCEPT !.primary_muscles = Arr(validateMuscleGroups_route(ex.primary_muscles.a)),
             !.secondary_muscles = Arr(validateMuscleGroups_route(ex.secondary_muscles.a))]

RepairWorkout(workout) ==
  [workout EXCEPT !.exercises =
     [j \in DOMAIN workout.exercises |-> RepairExercise(workout.exercises[j])]]

\* route.ts parseWorkoutPlanJSON
parseWorkoutPlanJSON(jsonString) ==
  LET decoded == JSONParse(jsonString)
      plan == PlanOf(decoded.val)
  IN IF ~decoded.ok THEN Thrown("SyntaxError", SyntaxErrorMessage)
     ELSE IF ~IsArray(plan.restDays) \/ Len(plan.restDays.a) > 7
       THEN Thrown("Error", <<"Invalid", "rest", "days", "configuration">>)
     ELSE IF \E d \in DOMAIN plan.restDays.a : InvalidRestDay(plan.restDays.a[d])
       THEN Thrown("Error", <<"Rest", "days", "must", "be", "integers", "between",
                              "1", "and", "7">>)
     ELSE IF ~plan.hasWorkouts THEN Thrown("TypeError", TypeErrorMessage)
     ELSE IF \E i \in DOMAIN plan.workouts : ~plan.workouts[i].hasExercises
       THEN Thrown("TypeError", TypeErrorMessage)
     ELSE IF \E i \in DOMAIN plan.workouts : \E j \in DOMAIN plan.workouts[i].exercises :
               \/ ~IsArray(plan.workouts[i].exercises[j].primary_muscles)
               \/ ~IsArray(plan.workouts[i].exercises[j].secondary_muscles)
       THEN Thrown("TypeError", TypeErrorMessage)
     ELSE Parsed([plan EXCEPT !.workouts =
                    [i \in DOMAIN plan.workouts |-> RepairWorkout(plan.workouts[i])]])

\* part_000 ExerciseSchema / WorkoutSchema / WorkoutPlanSchema
ExerciseSchema_000(ex) ==
  /\ IsString(ex.name) /\ StringLength(ex.name) >= 1
  /\ IsString(ex.description) /\ StringLength(ex.description) >= 1
  /\ IsStringArray(ex.equipment_needed)
  /\ IsInteger(ex.sets) /\ ex.sets.twice > 0
  /\ IsInteger(ex.reps) /\ ex.reps.twice > 0
  /\ IsString(ex.rest_duration) /\ StringLength(ex.rest_duration) >= 1
  /\ IsInteger(ex.order_in_workout) /\ ex.order_in_workout.twice >= 0
  /\ IsMuscleArray(ex.primary_muscles) /\ Len(ex.primary_muscles.a) >= 1
  /\ IsMuscleArray(ex.secondary_muscles)
  /\ IsEnumMember(ex.exercise_type, VALID_WORKOUT_TYPES)

WorkoutSchema_000(workout) ==
  /\ IsString(workout.name) /\ StringLength(workout.name) >= 1
  /\ IsString(workout.description) /\ StringLength(workout.description) >= 1
  /\ IsInteger(workout.day_of_week)
  /\ workout.day_of_week.twice >= 2 * 1 /\ workout.day_of_week.twice <= 2 * 7
  /\ IsString(workout.estimated_duration) /\ StringLength(workout.estimated_duration) >= 1
  /\ IsEnumMember(workout.workout_type, VALID_WORKOUT_TYPES)
  /\ workout.hasExercises
  /\ Len(workout.exercises) >= 1 /\ Len(workout.exercises) <= 5
  /\ \A j \in DOMAIN workout.exercises : ExerciseSchema_000(workout.exercises[j])

WorkoutPlanSchema_000(plan) ==
  /\ IsString(plan.description) /\ StringLength(plan.description) >= 1
  /\ IsEnumMember(plan.difficulty, VALID_DIFFICULTIES)
  /\ IsArray(plan.restDays)
  /\ \A d \in DOMAIN plan.restDays.a : ~InvalidRestDay(plan.restDays.a[d])
  /\ plan.hasWorkouts
  /\ \A i \in DOMAIN plan.workouts : WorkoutSchema_000(plan.workouts[i])

\* part_001 ExerciseSchema / WorkoutSchema / WorkoutPlanSchema
ExerciseSchema_001(ex) ==
  /\ IsString(ex.name) /\ IsString(ex.description)
  /\ IsStringArray(ex.equipment_needed)
  /\ IsNumber(ex.sets) /\ IsNumber(ex.reps)
  /\ IsString(ex.rest_duration)
  /\ IsNumber(ex.order_in_workout)
  /\ IsMuscleArray(ex.primary_muscles)
  /\ IsMuscleArray(ex.secondary_muscles)
  /\ IsEnumMember(ex.exercise_type, VALID_WORKOUT_TYPES)

WorkoutSchema_001(workout) ==
  /\ IsString(workout.name) /\ IsString(workout.description)
  /\ IsNumber(workout.day_of_week)
  /\ IsString(workout.estimated_duration)
  /\ IsEnumMember(workout.workout_type, VALID_WORKOUT_TYPES)
  /\ workout.hasExercises
  /\ Len(workout.exercises) <= 5
  /\ \A j \in DOMAIN workout.exercises : ExerciseSchema_001(workout.exercises[j])

WorkoutPlanSchema_001(plan) ==
  /\ IsString(plan.description)
  /\ IsEnumMember(plan.difficulty, VALID_DIFFICULTIES)
  /\ IsArray(plan.restDays)
  /\ \A d \in DOMAIN plan.restDays.a : IsNumber(plan.restDays.a[d])
  /\ plan.hasWorkouts
  /\ \A i \in DOMAIN plan.workouts : WorkoutSchema_001(plan.workouts[i])

\* part_002 quickValidate
quickValidate(plan) ==
  IF ~Truthy(plan.description) \/ ~Truthy(plan.difficulty) \/ ~plan.hasWorkouts
  THEN Thrown("Error", <<"Invalid", "plan", "structure">>)
  ELSE Parsed(plan)

\* ------------------------------------------------ sample model outputs
DurationNinetySec == <<"9", "0", " ", "s", "e", "c">>
DurationFortyFive == <<"4", "5">> \o MinutesSuffix

ExerciseObject(j) ==
  [v |-> [name |-> Str("exercise"), description |-> Str("how to do it"),
          sets |-> Num(3), reps |-> Num(10), equipment_needed |-> Arr(<<"barbell">>),
          rest_duration |-> Text(DurationNinetySec), order_in_workout |-> Num(j - 1),
          primary_muscles |-> Arr(<<"chest">>), secondary_muscles |-> Arr(<<"triceps">>),
          exercise_type |-> Str("strength")],
   key |-> "", kids |-> <<>>]

WorkoutObject(day, e) ==
  [v |-> [name |-> Str("workout"), description |-> Str("a session"),
          day_of_week |-> Num(day),
          estimated_duration |-> Text(DurationFortyFive), workout_type |-> Str("strength")],
   key |-> "exercises", kids |-> [j \in 1..e |-> ExerciseObject(j)]]

\* a plan whose i-th workout has shape[i] exercises
PlanObject(shape, restDays, difficulty) ==
  [v |-> [description |-> Str("plan"), difficulty |-> Str(difficulty),
          restDays |-> Arr([d \in DOMAIN restDays |-> Num(restDays[d])])],
   key |-> "workouts", kids |-> [i \in DOMAIN shape |-> WorkoutObject(i, shape[i])]]

\* the plan shapes tried: no workout, a workout without exercises, and
\* w workouts of e exercises each
Shapes ==
  {<<>>, <<0>>}
  \cup {[i \in 1..w |-> e] :
          <<w, e>> \in {x \in (1..MaxWorkouts) \X (1..MaxExercises) :
                         x[1] * x[2] <= MaxPlanExercises}}

\* the most exercises a workout may have (part_000 line 44, part_001 line 43)
MaxSchemaExercises == 5

\* plans of one workout that are well-formed JSON but bend one rule each
SpecialPlans(restDays) ==
  LET plan(workout) == [PlanObject(<<>>, restDays, "intermediate") EXCEPT !.kids = <<workout>>]
      workout(ex) == [WorkoutObject(1, 0) EXCEPT !.kids = <<ex>>]
      \* muscles outside the vocabulary next to a valid primary muscle
      strangeMuscles == [ExerciseObject(1) EXCEPT
                           !.v.primary_muscles = Arr(<<"chest", "wings">>),
                           !.v.secondary_muscles = Arr(<<"wings">>)]
      \* durations "0 sec" and "lots"
      zeroRest == [ExerciseObject(1) EXCEPT !.v.rest_duration = Text(<<"0", " ", "s", "e", "c">>)]
      lots == [workout(zeroRest) EXCEPT !.v.estimated_duration = Text(<<"l", "o", "t", "s">>)]
      \* 0 sets, 2.5 reps, position -1, no primary muscle, on day 9
      strangeNumbers == [ExerciseObject(1) EXCEPT
                           !.v.sets = Num(0), !.v.reps = NumHalf(2),
                           !.v.order_in_workout = Num(-1),
                           !.v.primary_muscles = Arr(<<>>)]
      dayNine == [workout(strangeNumbers) EXCEPT !.v.day_of_week = Num(9)]
  IN {JSONStringify(plan(workout(strangeMuscles))), JSONStringify(plan(lots)),
      JSONStringify(plan(dayNine)),
      \* one exercise more than a workout may have
      JSONStringify(PlanObject(<<MaxSchemaExercises + 1>>, restDays, "intermediate")),
      \* eight rest days, and a rest day that is no integer
      JSONStringify(PlanObject(<<1>>, <<1, 2, 3, 4, 5, 6, 7, 1>>, "intermediate")),
      JSONStringify([PlanObject(<<1>>, restDays, "intermediate")
                       EXCEPT !.v.restDays = Arr(<<NumHalf(1)>>)]),
      JSONStringify([PlanObject(<<1>>, restDays, "intermediate")
                       EXCEPT !.v.restDays = Arr(<<Num(8)>>)])}

\* what the generation service may answer when the prompt asked for restDays
ModelOutputs(restDays) ==
  \* the plan asked for, in every shape
  {JSONStringify(PlanObject(sh, restDays, "intermediate")) : sh \in Shapes}
  \* the same inside a code fence
  \cup {<<Fence>> \o JSONStringify(PlanObject(<<1>>, restDays, "beginner")) \o <<Fence>>}
  \* the same inside prose
  \cup {<<Prose>> \o JSONStringify(PlanObject(sh, restDays, "advanced")) \o <<Prose>> :
          sh \in {<<>>, <<1>>}}
  \* other rest days than asked for, and rest days that are no week days
  \cup {JSONStringify(PlanObject(<<1>>, rd, "intermediate")) : rd \in {<<1, 2>>, <<8>>}}
  \* a difficulty outside the enumeration
  \cup {JSONStringify(PlanObject(<<1>>, restDays, "expert"))}
  \* prose only, prose around an unbalanced brace, and no text at all
  \* and prose inside balanced braces
  \cup {<<Prose, Prose>>, <<Prose, Open([x |-> Undefined], ""), Prose>>, <<>>,
        <<Prose, Open([x |-> Undefined], ""), Prose, Close>>}
  \* plans that bend one rule of the plan contract
  \cup SpecialPlans(restDays)

\* ------------------------------------------------------------- responses
NoResponse ==
  [status |-> 0, success |-> FALSE, error |-> <<>>, workouts |-> Undefined,
   details |-> FALSE]

ErrorResponse(status, message) ==
  [status |-> status, success |-> FALSE, error |-> message, workouts |-> Undefined,
   details |-> FALSE]

\* NextResponse.json({ success: true, ... }): workouts is the plan.workouts member
SuccessResponse(workoutsMember) ==
  [status |-> 200, success |-> TRUE, error |-> <<>>, workouts |-> workoutsMember,
   details |-> FALSE]

InvalidRequestData ==
  [status |-> 400, success |-> FALSE, error |-> <<"Invalid", "request", "data">>,
   workouts |-> Undefined, details |-> TRUE]

\* errorMessage.includes('timeout') ? 504 : 500
TimeoutStatus(message) == IF MessageIncludes(message, "timeout") THEN 504 ELSE 500

\* (mutant) a catch block that also answers a SyntaxError as a request error
CatchResponse_syntaxAsRequestError(v, exc) ==
  IF exc.cls \in {"ZodError", "SyntaxError"}
  THEN [status |-> 400, success |-> FALSE, error |-> <<"Invalid", "request", "data">>,
        workouts |-> Undefined, details |-> TRUE]
  ELSE ErrorResponse(IF v # "route" /\ MessageIncludes(exc.message, "timeout")
                     THEN 504 ELSE 500, exc.message)

\* the catch block of POST in each revision
CatchResponse(v, exc) ==
  CASE v = "route" -> ErrorResponse(500, exc.message)
    [] v \in {"part_000", "part_001"} ->
         IF exc.cls = "ZodError" THEN InvalidRequestData
         ELSE ErrorResponse(TimeoutStatus(exc.message), exc.message)
    [] OTHER -> ErrorResponse(TimeoutStatus(exc.message), exc.message)

ZodError == Exception("ZodError", <<"zod", "issues">>)

\* the rejection of withTimeout
TimeoutError(v) ==
  IF v = "part_001" THEN Exception("Error", <<"Operation", "timed", "out">>)
  ELSE Exception("Error", <<"Request", "timeout">>)

HasTimeout(v) == v \in {"part_000", "part_001", "part_002"}
ConsultsProfile(v) == v \in {"route", "part_001"}

\* messages of the store and of the generation service
StoreErrors == {<<"duplicate", "key">>, <<"canceling", "statement", "due", "to",
                                         "statement", "timeout">>}
ProviderErrors == {<<"529", "Overloaded">>}

\* ------------------------------------------- parsing of the model output
EmptyContent(v) ==
  CASE v = "route" -> <<"Failed", "to", "generate", "workout", "plan", "content">>
    [] v = "part_000" -> <<"Failed", "to", "generate", "workout", "plan">>
    [] v = "part_001" -> <<"Failed", "to", "generate", "plan">>
    [] OTHER -> <<"No", "plan", "generated">>

FailedToParsePrefix == <<"Failed", "to", "parse", "workout", "plan", "JSON:">>

\* route.ts POST, lines 205-234: strict decoding, recovery by pattern, repair
ParseModelOutput_route(planContent) ==
  LET cleanJSON == StripFences(planContent)
      strict == JSONParse(cleanJSON)
      jsonMatch == RegexMatch(cleanJSON)
      recovered == JSONParse(jsonMatch.text)
      Rethrown(message) == Thrown("Error", FailedToParsePrefix \o message)
  IN IF planContent = <<>> THEN Thrown("Error", EmptyContent("route"))
     ELSE IF ~strict.ok /\ ~jsonMatch.found
       THEN Rethrown(<<"Could", "not", "find", "complete", "JSON", "object", "in",
                       "response">>)
     ELSE IF ~strict.ok /\ ~recovered.ok
       THEN Rethrown(<<"Could", "not", "extract", "valid", "JSON", "from", "response">>)
     ELSE LET parsedJSON == IF strict.ok THEN strict.val ELSE recovered.val
              res == parseWorkoutPlanJSON(JSONStringify(parsedJSON))
          IN IF res.ok THEN res ELSE Rethrown(res.err.message)

\* part_000 POST, lines 322-331
ParseModelOutput_000(planContent) ==
  LET decoded == JSONParse(StripFences(planContent))
  IN IF planContent = <<>> THEN Thrown("Error", EmptyContent("part_000"))
     ELSE IF ~decoded.ok THEN Thrown("SyntaxError", SyntaxErrorMessage)
     ELSE IF ~WorkoutPlanSchema_000(PlanOf(decoded.val)) THEN Thrown("ZodError", ZodError.message)
     ELSE Parsed(PlanOf(decoded.val))

\* part_001 POST, lines 249-255
ParseModelOutput_001(planContent) ==
  LET decoded == JSONParse(StripFences(planContent))
  IN IF planContent = <<>> THEN Thrown("Error", EmptyContent("part_001"))
     ELSE IF ~decoded.ok THEN Thrown("SyntaxError", SyntaxErrorMessage)
     ELSE IF ~WorkoutPlanSchema_001(PlanOf(decoded.val)) THEN Thrown("ZodError", ZodError.message)
     ELSE Parsed(PlanOf(decoded.val))

\* part_002 POST, lines 251-267 (the texts tried hold no typographic quotes and
\* no trailing commas, so those two replacements change nothing)
ParseModelOutput_002(planContent) ==
  LET decoded == JSONParse(StripFences(planContent))
      Rethrown == Thrown("Error", <<"Failed", "to", "parse", "workout", "plan:",
                                    "Invalid", "JSON", "structure">>)
  IN IF planContent = <<>> THEN Thrown("Error", EmptyContent("part_002"))
     ELSE IF ~decoded.ok THEN Rethrown
     ELSE IF ~quickValidate(PlanOf(decoded.val)).ok THEN Rethrown
     ELSE Parsed(PlanOf(decoded.val))

ParseModelOutput(v, planContent) ==
  CASE v = "route" -> ParseModelOutput_route(planContent)
    [] v = "part_000" -> ParseModelOutput_000(planContent)
    [] v = "part_001" -> ParseModelOutput_001(planContent)
    [] OTHER -> ParseModelOutput_002(planContent)

\* ------------------------------------------------------------------ state
Requests == {1, 2}

VARIABLES
  env,              \* the three configuration values are present
  variant,          \* per request: the revision of the handler that serves it
  body,             \* per request: the decoded request body
  pc,               \* per request: where the handler stands
  validRestDays,    \* per request: the rest days put into the prompt
  planContent,      \* per request: the text the generation service returned
  workoutPlan,      \* per request: the parsed plan
  ins,              \* per request: the state of each insert of saveWorkoutPlan
  saveState,        \* per request: the promise of the persistence stage
  response,         \* per request: the HTTP response, once sent
  profileLookups,   \* per request: profile selects issued
  generationCalls,  \* per request: generation calls issued
  fitness_goals, workout_plans, workouts, exercises,   \* the tables
  probe,            \* a pure function applied to a drawn input, and its result
  generator,        \* the state of the plan generator component
  planView,         \* the state of the plan view component
  workout_logs,     \* the workout_logs table
  clock             \* the current calendar day

configVars == <<env, variant, body>>
storeVars == <<fitness_goals, workout_plans, workouts, exercises>>
clientVars == <<generator, planView, workout_logs, clock>>
vars == <<env, variant, body, pc, validRestDays, planContent, workoutPlan, ins,
          saveState, response, profileLookups, generationCalls,
          fitness_goals, workout_plans, workouts, exercises, probe,
          generator, planView, workout_logs, clock>>

NoInserts == [goal |-> "none", plan |-> "none", w |-> <<>>, e |-> <<>>, batch |-> <<>>]
NoProbe == [fn |-> "none"]

\* the handler sends its response
Respond(r, resp) ==
  /\ response' = [response EXCEPT ![r] = resp]
  /\ pc' = [pc EXCEPT ![r] = "responded"]

\* an exception reaches the catch block of POST
Throw(r, exc) == Respond(r, CatchResponse(variant[r], exc))

\* WorkoutPlanGenerator before its effects ran: the useState initial values
InitialGenerator ==
  [checkingPlans |-> TRUE, hasActivePlan |-> FALSE, loading |-> FALSE,
   message |-> "none", formFilled |-> FALSE, check |-> "idle", fetching |-> 0]

\* WorkoutPlansDisplay with no handleLogWorkout call running
Invocations == {1, 2}
InitialPlanView ==
  [error |-> "none", call |-> [k \in Invocations |-> [pc |-> "idle", today |-> 0]]]

\* the requests of active have arrived, those of later may arrive
InitServing(active, later) ==
  /\ generator = InitialGenerator /\ planView = InitialPlanView
  /\ workout_logs = {} /\ clock = 1
  /\ env \in BOOLEAN
  /\ variant \in [Requests -> Variants]
  /\ body \in [Requests -> Bodies]
  /\ \A r \in Requests \ (active \cup later) : variant[r] = "route" /\ body[r] = BaseBody
  /\ pc = [r \in Requests |-> IF r \in active THEN "received" ELSE "idle"]
  /\ validRestDays = [r \in Requests |-> <<>>]
  /\ planContent = [r \in Requests |-> <<>>]
  /\ workoutPlan = [r \in Requests |-> NoPlan]
  /\ ins = [r \in Requests |-> NoInserts]
  /\ saveState = [r \in Requests |-> "idle"]
  /\ response = [r \in Requests |-> NoResponse]
  /\ profileLookups = [r \in Requests |-> 0]
  /\ generationCalls = [r \in Requests |-> 0]
  /\ fitness_goals = {} /\ workout_plans = {} /\ workouts = {} /\ exercises = {}

InitRequests(active) == InitServing(active, {})

\* one request, in any revision, with any sample body
Init == InitRequests({1}) /\ probe = NoProbe

\* ------------------------------------------- configuration and validation
MissingEnvMessage(v) ==
  CASE v \in {"route", "part_000"} ->
         <<"Missing", "required", "environment", "variables">>
    [] v = "part_001" -> <<"Missing", "environment", "variables">>
    [] OTHER -> <<"Missing", "env", "vars">>

\* the outcome of the inbound validation: a response, or none when it passes
ValidateBody(v, b) ==
  CASE v = "route" ->
         IF MissingRequiredFields(b)
         THEN ErrorResponse(400, <<"Missing", "required", "fields">>) ELSE NoResponse
    [] v = "part_000" ->
         IF RequestBodySchema_000(b) THEN NoResponse ELSE CatchResponse(v, ZodError)
    [] v = "part_001" ->
         IF RequestBodySchema_001(b) THEN NoResponse ELSE CatchResponse(v, ZodError)
    [] OTHER ->
         IF RequestBodySchema_002(b) THEN NoResponse ELSE CatchResponse(v, ZodError)

\* POST up to the first await after the body: the configuration check, the
\* validation of the body and, in route.ts and part_001, the profile select
Receive(r) ==
  /\ pc[r] = "received"
  /\ IF ~env
     THEN /\ Throw(r, Exception("Error", MissingEnvMessage(variant[r])))
          /\ UNCHANGED profileLookups
     ELSE IF ValidateBody(variant[r], body[r]) # NoResponse
     THEN /\ Respond(r, ValidateBody(variant[r], body[r]))
          /\ UNCHANGED profileLookups
     ELSE IF ConsultsProfile(variant[r])
     THEN /\ pc' = [pc EXCEPT ![r] = "profile"]
          /\ profileLookups' = [profileLookups EXCEPT ![r] = @ + 1]
          /\ UNCHANGED response
     ELSE /\ pc' = [pc EXCEPT ![r] = "prompt"]
          /\ UNCHANGED <<response, profileLookups>>
  /\ UNCHANGED <<configVars, validRestDays, planContent, workoutPlan, ins, saveState,
                 generationCalls, storeVars, probe, clientVars>>

\* the profile select answers: a row, or an error / no row
ProfileReturns(r) ==
  /\ pc[r] = "profile"
  /\ \E found \in BOOLEAN :
       IF found
       THEN pc' = [pc EXCEPT ![r] = "prompt"] /\ UNCHANGED response
       ELSE IF variant[r] = "route"
       THEN Throw(r, Exception("Error", <<"User", "not", "found">>))
       ELSE Respond(r, ErrorResponse(404, <<"User", "not", "found">>))
  /\ UNCHANGED <<configVars, validRestDays, planContent, workoutPlan, ins, saveState,
                 profileLookups, generationCalls, storeVars, probe, clientVars>>

\* part_001: withTimeout(profilePromise, 5000) rejects first
ProfileTimeout(r) ==
  /\ pc[r] = "profile"
  /\ variant[r] = "part_001"
  /\ Throw(r, TimeoutError(variant[r]))
  /\ UNCHANGED <<configVars, validRestDays, planContent, workoutPlan, ins, saveState,
                 profileLookups, generationCalls, storeVars, probe, clientVars>>

\* ------------------------------------------------ rest days and the prompt
\* the generation call is issued with the prompt built around restDays
CallGeneration(r, restDays) ==
  /\ validRestDays' = [validRestDays EXCEPT ![r] = restDays]
  /\ generationCalls' = [generationCalls EXCEPT ![r] = @ + 1]
  /\ pc' = [pc EXCEPT ![r] = "generating"]
  /\ UNCHANGED response

BuildPrompt_route(r) ==
  /\ pc[r] = "prompt" /\ variant[r] = "route"
  /\ \E shuffled \in Shuffles :
       CallGeneration(r, validateRestDays_route(body[r].daysPerWeek, shuffled))
  /\ UNCHANGED <<configVars, planContent, workoutPlan, ins, saveState,
                 profileLookups, storeVars, probe, clientVars>>

BuildPrompt_000(r) ==
  /\ pc[r] = "prompt" /\ variant[r] = "part_000"
  /\ \E shuffled \in Shuffles :
       LET rest == validateRestDays_000(body[r].daysPerWeek, shuffled)
           muscles == validateMuscleGroups_000(body[r].focusMuscles.a)
       IN IF ~rest.ok
          THEN Throw(r, rest.err) /\ UNCHANGED <<validRestDays, generationCalls>>
          ELSE IF ~muscles.ok
          THEN Throw(r, muscles.err) /\ UNCHANGED <<validRestDays, generationCalls>>
          ELSE CallGeneration(r, rest.v)
  /\ UNCHANGED <<configVars, planContent, workoutPlan, ins, saveState,
                 profileLookups, storeVars, probe, clientVars>>

\* part_001: Array.from(...).sort(() => 0.5 - Math.random())
BuildPrompt_001(r) ==
  /\ pc[r] = "prompt" /\ variant[r] = "part_001"
  /\ \E restDays \in Perms(Range(ArrayFromLength(body[r].daysPerWeek))) :
       CallGeneration(r, restDays)
  /\ UNCHANGED <<configVars, planContent, workoutPlan, ins, saveState,
                 profileLookups, storeVars, probe, clientVars>>

BuildPrompt_002(r) ==
  /\ pc[r] = "prompt" /\ variant[r] = "part_002"
  /\ CallGeneration(r, ArrayFromLength(body[r].daysPerWeek))
  /\ UNCHANGED <<configVars, planContent, workoutPlan, ins, saveState,
                 profileLookups, storeVars, probe, clientVars>>

\* ------------------------------------------------------ the generation call
\* with several requests of a user, in flight together or sent one after the
\* other by the generator component, the answers tried are the plans asked
\* for, of one and of two workouts
ConcurrentOutputs(restDays) ==
  {JSONStringify(PlanObject(sh, restDays, "intermediate")) : sh \in {<<1>>, <<1, 1>>}}

Completions(r) ==
  IF generator.fetching = 0 /\ \A q \in Requests \ {r} : pc[q] = "idle"
  THEN ModelOutputs(validRestDays[r])
  ELSE ConcurrentOutputs(validRestDays[r])

GenerationReturns(r) ==
  /\ pc[r] = "generating"
  /\ \E text \in Completions(r) :
       planContent' = [planContent EXCEPT ![r] = text]
  /\ pc' = [pc EXCEPT ![r] = "parsing"]
  /\ UNCHANGED <<configVars, validRestDays, workoutPlan, ins, saveState, response,
                 profileLookups, generationCalls, storeVars, probe, clientVars>>

\* the client gives up with the provider's error
GenerationFails(r) ==
  /\ pc[r] = "generating"
  /\ \E message \in ProviderErrors : Throw(r, Exception("Error", message))
  /\ UNCHANGED <<configVars, validRestDays, planContent, workoutPlan, ins, saveState,
                 profileLookups, generationCalls, storeVars, probe, clientVars>>

\* the call has not resolved when the timer of withTimeout fires
GenerationTimeout(r) ==
  /\ pc[r] = "generating"
  /\ HasTimeout(variant[r])
  /\ Throw(r, TimeoutError(variant[r]))
  /\ UNCHANGED <<configVars, validRestDays, planContent, workoutPlan, ins, saveState,
                 profileLookups, generationCalls, storeVars, probe, clientVars>>

\* ------------------------------------------------------------ persistence
\* the id the store generates for a new row: a fresh value, named here after
\* the table and the insert that created the row
NewId(tbl, r, i, j) == [tbl |-> tbl, r |-> r, i |-> i, j |-> j]

\* planParams as POST passes them to saveWorkoutPlan (route.ts: the inline values)
PlanParams(v, b) ==
  [durationWeeks |-> IF v = "part_001" THEN b.daysPerWeek ELSE b.durationWeeks,
   workoutType |-> b.workoutType,
   focusMuscles |-> IF v \in {"route", "part_000"}
                    THEN validateMuscleGroups_route(b.focusMuscles.a)
                    ELSE b.focusMuscles.a,
   daysPerWeek |-> b.daysPerWeek]

GoalRow(r) ==
  LET planParams == PlanParams(variant[r], body[r])
  IN [id |-> NewId("fitness_goals", r, 0, 0), user_id |-> body[r].userId,
      goal_type |-> body[r].goalType,
      target_date |-> [issuedPlusWeeks |-> planParams.durationWeeks],
      status |-> "active",
      specific_targets |-> [workout_type |-> planParams.workoutType,
                            focus_muscles |-> planParams.focusMuscles,
                            days_per_week |-> planParams.daysPerWeek]]

\* (mutant) the plan is stored inactive
PlanRow_inactive(r) ==
  LET planParams == PlanParams(variant[r], body[r])
  IN [id |-> NewId("workout_plans", r, 0, 0), user_id |-> body[r].userId,
      goal_id |-> NewId("fitness_goals", r, 0, 0),
      description |-> workoutPlan[r].description,
      duration_weeks |-> planParams.durationWeeks,
      difficulty |-> workoutPlan[r].difficulty, is_active |-> FALSE,
      focus_muscles |-> planParams.focusMuscles,
      rest_days |-> workoutPlan[r].restDays]

PlanRow(r) ==
  LET planParams == PlanParams(variant[r], body[r])
  IN [id |-> NewId("workout_plans", r, 0, 0), user_id |-> body[r].userId,
      goal_id |-> NewId("fitness_goals", r, 0, 0),
      description |-> workoutPlan[r].description,
      duration_weeks |-> planParams.durationWeeks,
      difficulty |-> workoutPlan[r].difficulty, is_active |-> TRUE,
      focus_muscles |-> planParams.focusMuscles,
      rest_days |-> workoutPlan[r].restDays]

\* the duration as the revision writes it
StoredDuration(v, duration) ==
  CASE v = "route" -> Text(parseInterval_route(duration.chars))
    [] v = "part_000" -> Text(parseInterval_000(duration.chars))
    [] OTHER -> duration

WorkoutRow(r, i) ==
  LET workout == workoutPlan[r].workouts[i]
  IN [id |-> NewId("workouts", r, i, 0), plan_id |-> NewId("workout_plans", r, 0, 0),
      name |-> workout.name, description |-> workout.description,
      day_of_week |-> workout.day_of_week,
      estimated_duration |-> StoredDuration(variant[r], workout.estimated_duration),
      workout_type |-> workout.workout_type]

\* (mutant) the exercise references the workout of the other request
ExerciseRow_crossWired(r, i, j) ==
  LET exercise == workoutPlan[r].workouts[i].exercises[j]
      other == CHOOSE q \in Requests : q # r
  IN [id |-> NewId("exercises", r, i, j), workout_id |-> NewId("workouts", other, i, 0),
      name |-> exercise.name, description |-> exercise.description,
      sets |-> exercise.sets, reps |-> exercise.reps,
      equipment_needed |-> exercise.equipment_needed,
      rest_duration |-> StoredDuration(variant[r], exercise.rest_duration),
      order_in_workout |-> exercise.order_in_workout,
      exercise_type |-> exercise.exercise_type,
      primary_muscles |-> exercise.primary_muscles,
      secondary_muscles |-> exercise.secondary_muscles]

ExerciseRow(r, i, j) ==
  LET exercise == workoutPlan[r].workouts[i].exercises[j]
  IN [id |-> NewId("exercises", r, i, j), workout_id |-> NewId("workouts", r, i, 0),
      name |-> exercise.name, description |-> exercise.description,
      sets |-> exercise.sets, reps |-> exercise.reps,
      equipment_needed |-> exercise.equipment_needed,
      rest_duration |-> StoredDuration(variant[r], exercise.rest_duration),
      order_in_workout |-> exercise.order_in_workout,
      exercise_type |-> exercise.exercise_type,
      primary_muscles |-> exercise.primary_muscles,
      secondary_muscles |-> exercise.secondary_muscles]

\* the inserts of a plan, the goal insert issued
StartInserts(plan) ==
  [goal |-> "inflight", plan |-> "none",
   w |-> [i \in DOMAIN plan.workouts |-> "none"],
   e |-> [i \in DOMAIN plan.workouts |->
            [j \in DOMAIN plan.workouts[i].exercises |-> "none"]],
   batch |-> [i \in DOMAIN plan.workouts |-> "none"]]

SetW(x, i, st) == [x EXCEPT !.w[i] = st]
SetE(x, i, j, st) == [x EXCEPT !.e[i][j] = st]
\* (mutant) the exercises issued together with their workouts
IssueWorkoutsWithExercises(x) ==
  [x EXCEPT !.w = [i \in DOMAIN x.w |-> "inflight"],
            !.e = [i \in DOMAIN x.e |-> [j \in DOMAIN x.e[i] |-> "inflight"]]]

IssueAllWorkouts(x) == [x EXCEPT !.w = [i \in DOMAIN x.w |-> "inflight"]]
IssueAllExercises(x, i) == [x EXCEPT !.e[i] = [j \in DOMAIN x.e[i] |-> "inflight"]]
Answered(st) == st \in {"ok", "err"}

Running(x) == [ins |-> x, outcome |-> "running", exc |-> NoException]
Resolved(x) == [ins |-> x, outcome |-> "resolved", exc |-> NoException]
Rejected(x, exc) == [ins |-> x, outcome |-> "rejected", exc |-> exc]

WithStoreMessage(v, prefix, message) ==
  IF v = "part_001" THEN prefix ELSE prefix \o message

\* route.ts, lines 276-315: what the loops do after exercise j of workout i
\* (j = 0: after the workout's own insert; i = 0: after the plan insert)
NextStep_route(plan, x, i, j) ==
  IF i >= 1 /\ j < Len(plan.workouts[i].exercises)
  THEN IF ~IsString(plan.workouts[i].exercises[j + 1].rest_duration)
       THEN Rejected(x, Exception("TypeError", TypeErrorMessage))
       ELSE Running(SetE(x, i, j + 1, "inflight"))
  ELSE IF i < Len(plan.workouts)
  THEN IF ~IsString(plan.workouts[i + 1].estimated_duration)
       THEN Rejected(x, Exception("TypeError", TypeErrorMessage))
       ELSE Running(SetW(x, i + 1, "inflight"))
  ELSE Resolved(x)

\* part_002, lines 123-168: the loop moves on from workout i
NextWorkout_002(plan, x, i) ==
  IF i < Len(plan.workouts) THEN Running(SetW(x, i + 1, "inflight")) ELSE Resolved(x)

\* part_002, lines 142-165: the exercises of workout i, all at once
StartExercises_002(plan, x, i) ==
  IF ~plan.workouts[i].hasExercises
  THEN Rejected(x, Exception("TypeError", TypeErrorMessage))
  ELSE IF Len(plan.workouts[i].exercises) = 0 THEN NextWorkout_002(plan, x, i)
  ELSE Running(IssueAllExercises(x, i))

\* part_000 processWorkout / part_001 workoutPromises: has promise i fulfilled
WorkoutFulfilled(v, x, i) ==
  /\ x.w[i] = "ok"
  /\ IF v = "part_001" THEN Answered(x.batch[i])
     ELSE \A j \in DOMAIN x.e[i] : Answered(x.e[i][j])

\* Promise.all over the workouts
PromiseAll(v, x) ==
  IF \A i \in DOMAIN x.w : WorkoutFulfilled(v, x, i) THEN Resolved(x) ELSE Running(x)

\* after the workout_plans insert has returned its row
AfterPlan(v, plan, x) ==
  CASE v = "route" -> NextStep_route(plan, x, 0, 0)
    [] v = "part_002" -> NextWorkout_002(plan, x, 0)
    [] OTHER -> PromiseAll(v, IssueAllWorkouts(x))

\* after the insert of workout i has returned its row
AfterWorkout(v, plan, x, i) ==
  CASE v = "route" -> NextStep_route(plan, x, i, 0)
    [] v = "part_002" -> StartExercises_002(plan, x, i)
    [] v = "part_000" -> PromiseAll(v, IssueAllExercises(x, i))
    [] OTHER -> Running([IssueAllExercises(x, i) EXCEPT !.batch[i] = "inflight"])

\* after the insert of exercise j of workout i has answered (ok or not)
AfterExercise(v, plan, x, i, j, ok, message) ==
  CASE v = "route" ->
         IF ok THEN NextStep_route(plan, x, i, j)
         ELSE Rejected(x, Exception("Error",
                <<"Failed", "to", "create", "exercise:">> \o message))
    [] v = "part_002" ->
         IF \A k \in DOMAIN x.e[i] : Answered(x.e[i][k])
         THEN NextWorkout_002(plan, x, i) ELSE Running(x)
    [] OTHER -> PromiseAll(v, x)

\* the plan.workouts member of the success response
WorkoutsMember(v, plan) == IF v = "route" THEN Undefined ELSE Num(Len(plan.workouts))

\* A step of saveWorkoutPlan has run.  The promise of the stage settles once;
\* the handler answers if it is still awaiting it.
Settle(r, step) ==
  /\ ins' = [ins EXCEPT ![r] = step.ins]
  /\ IF saveState[r] = "running" /\ step.outcome # "running"
     THEN /\ saveState' = [saveState EXCEPT ![r] = step.outcome]
          /\ IF pc[r] = "persisting"
             THEN IF step.outcome = "resolved"
                  THEN Respond(r, SuccessResponse(WorkoutsMember(variant[r], workoutPlan[r])))
                  ELSE Throw(r, step.exc)
             ELSE UNCHANGED <<pc, response>>
     ELSE UNCHANGED <<saveState, pc, response>>

\* POST from the text of the completion to the first insert of the goal
ParsePlan(r) ==
  /\ pc[r] = "parsing"
  /\ LET res == ParseModelOutput(variant[r], planContent[r])
     IN IF res.ok
        THEN /\ workoutPlan' = [workoutPlan EXCEPT ![r] = res.plan]
             /\ ins' = [ins EXCEPT ![r] = StartInserts(res.plan)]
             /\ saveState' = [saveState EXCEPT ![r] = "running"]
             /\ pc' = [pc EXCEPT ![r] = "persisting"]
             /\ UNCHANGED response
        ELSE /\ Throw(r, res.err)
             /\ UNCHANGED <<workoutPlan, ins, saveState>>
  /\ UNCHANGED <<configVars, validRestDays, planContent, profileLookups,
                 generationCalls, storeVars, probe, clientVars>>

\* the store answers the fitness_goals insert
GoalInsertReturns(r) ==
  /\ ins[r].goal = "inflight"
  /\ \E ok \in BOOLEAN, message \in StoreErrors :
       IF ok
       THEN /\ fitness_goals' = fitness_goals \cup {GoalRow(r)}
            /\ Settle(r, Running([ins[r] EXCEPT !.goal = "ok", !.plan = "inflight"]))
       ELSE /\ UNCHANGED fitness_goals
            /\ Settle(r, Rejected([ins[r] EXCEPT !.goal = "err"],
                 Exception("Error", WithStoreMessage(variant[r],
                   <<"Failed", "to", "create", "fitness", "goal:">>, message))))
  /\ UNCHANGED <<configVars, validRestDays, planContent, workoutPlan, profileLookups,
                 generationCalls, workout_plans, workouts, exercises, probe, clientVars>>

\* a plan insert that, when it fails, takes the request's goal row back
PlanInsertReturns_rollback(r) ==
  /\ ins[r].plan = "inflight"
  /\ \E ok \in BOOLEAN, message \in StoreErrors :
       IF ok
       THEN /\ workout_plans' = workout_plans \cup {PlanRow(r)}
            /\ UNCHANGED fitness_goals
            /\ Settle(r, AfterPlan(variant[r], workoutPlan[r],
                                   [ins[r] EXCEPT !.plan = "ok"]))
       ELSE /\ UNCHANGED workout_plans
            /\ fitness_goals' = {row \in fitness_goals : row.id.r # r}
            /\ Settle(r, Rejected([ins[r] EXCEPT !.plan = "err"],
                 Exception("Error", WithStoreMessage(variant[r],
                   <<"Failed", "to", "create", "workout", "plan:">>, message))))
  /\ UNCHANGED <<configVars, validRestDays, planContent, workoutPlan, profileLookups,
                 generationCalls, workouts, exercises, probe, clientVars>>

\* the store answers the workout_plans insert
PlanInsertReturns(r) ==
  /\ ins[r].plan = "inflight"
  /\ \E ok \in BOOLEAN, message \in StoreErrors :
       IF ok
       THEN /\ workout_plans' = workout_plans \cup {PlanRow(r)}
            /\ Settle(r, AfterPlan(variant[r], workoutPlan[r],
                                   [ins[r] EXCEPT !.plan = "ok"]))
       ELSE /\ UNCHANGED workout_plans
            /\ Settle(r, Rejected([ins[r] EXCEPT !.plan = "err"],
                 Exception("Error", WithStoreMessage(variant[r],
                   <<"Failed", "to", "create", "workout", "plan:">>, message))))
  /\ UNCHANGED <<configVars, validRestDays, planContent, workoutPlan, profileLookups,
                 generationCalls, fitness_goals, workouts, exercises, probe, clientVars>>

\* the store answers the insert of workout i
WorkoutInsertReturns(r, i) ==
  /\ ins[r].w[i] = "inflight"
  /\ \E ok \in BOOLEAN, message \in StoreErrors :
       IF ok
       THEN /\ workouts' = workouts \cup {WorkoutRow(r, i)}
            /\ Settle(r, AfterWorkout(variant[r], workoutPlan[r],
                                      SetW(ins[r], i, "ok"), i))
       ELSE /\ UNCHANGED workouts
            /\ Settle(r, Rejected(SetW(ins[r], i, "err"),
                 Exception("Error", WithStoreMessage(variant[r],
                   <<"Failed", "to", "create", "workout:">>, message))))
  /\ UNCHANGED <<configVars, validRestDays, planContent, workoutPlan, profileLookups,
                 generationCalls, fitness_goals, workout_plans, exercises, probe, clientVars>>

\* the store answers the insert of exercise j of workout i (one row per insert)
ExerciseInsertReturns(r, i, j) ==
  /\ variant[r] # "part_001"
  /\ ins[r].e[i][j] = "inflight"
  /\ \E ok \in BOOLEAN, message \in StoreErrors :
       /\ exercises' = IF ok THEN exercises \cup {ExerciseRow(r, i, j)} ELSE exercises
       /\ Settle(r, AfterExercise(variant[r], workoutPlan[r],
                      SetE(ins[r], i, j, IF ok THEN "ok" ELSE "err"), i, j, ok, message))
  /\ UNCHANGED <<configVars, validRestDays, planContent, workoutPlan, profileLookups,
                 generationCalls, fitness_goals, workout_plans, workouts, probe, clientVars>>

\* part_001: the store answers the one insert of all exercises of workout i
ExerciseBatchReturns(r, i) ==
  /\ variant[r] = "part_001"
  /\ ins[r].batch[i] = "inflight"
  /\ \E ok \in BOOLEAN :
       LET st == IF ok THEN "ok" ELSE "err"
           x == [ins[r] EXCEPT !.batch[i] = st,
                               !.e[i] = [j \in DOMAIN ins[r].e[i] |-> st]]
       IN /\ exercises' = IF ok
                          THEN exercises \cup {ExerciseRow(r, i, j) : j \in DOMAIN ins[r].e[i]}
                          ELSE exercises
          /\ Settle(r, PromiseAll(variant[r], x))
  /\ UNCHANGED <<configVars, validRestDays, planContent, workoutPlan, profileLookups,
                 generationCalls, fitness_goals, workout_plans, workouts, probe, clientVars>>

\* the timer of withTimeout(saveWorkoutPlan(...)) fires before the stage settles;
\* nothing cancels saveWorkoutPlan
PersistTimeout(r) ==
  /\ pc[r] = "persisting"
  /\ saveState[r] = "running"
  /\ HasTimeout(variant[r])
  /\ Throw(r, TimeoutError(variant[r]))
  /\ UNCHANGED <<configVars, validRestDays, planContent, workoutPlan, ins, saveState,
                 profileLookups, generationCalls, storeVars, probe, clientVars>>

Step(r) ==
  \/ Receive(r)
  \/ ProfileReturns(r)
  \/ ProfileTimeout(r)
  \/ BuildPrompt_route(r)
  \/ BuildPrompt_000(r)
  \/ BuildPrompt_001(r)
  \/ BuildPrompt_002(r)
  \/ GenerationReturns(r)
  \/ GenerationFails(r)
  \/ GenerationTimeout(r)
  \/ ParsePlan(r)
  \/ GoalInsertReturns(r)
  \/ PlanInsertReturns(r)
  \/ PersistTimeout(r)
  \/ \E i \in DOMAIN ins[r].w : WorkoutInsertReturns(r, i)
  \/ \E i \in DOMAIN ins[r].e : \E j \in DOMAIN ins[r].e[i] : ExerciseInsertReturns(r, i, j)
  \/ \E i \in DOMAIN ins[r].batch : ExerciseBatchReturns(r, i)

Next == \E r \in Requests : Step(r)

Spec == Init /\ [][Next]_vars

\* The store answers every insert and an armed timer fires; the generation
\* service may stay silent for ever.
StoreAnswers(r) ==
  \/ GoalInsertReturns(r)
  \/ PlanInsertReturns(r)
  \/ \E i \in DOMAIN ins[r].w : WorkoutInsertReturns(r, i)
  \/ \E i \in DOMAIN ins[r].e : \E j \in DOMAIN ins[r].e[i] : ExerciseInsertReturns(r, i, j)
  \/ \E i \in DOMAIN ins[r].batch : ExerciseBatchReturns(r, i)

HandlerFairness ==
  \A r \in Requests :
    /\ WF_vars(StoreAnswers(r))
    /\ WF_vars(GenerationTimeout(r))

SpecLive == Init /\ [][Next]_vars /\ HandlerFairness

\* two requests of the same user in flight at once, served by the same
\* deployed revision
InitTwo ==
  /\ InitRequests(Requests) /\ env /\ probe = NoProbe
  /\ \A r \in Requests : body[r] = BaseBody /\ variant[r] = variant[1]

SpecTwo == InitTwo /\ [][Next]_vars

\* ------------------------------------------------ pure functions, on their own
MaxDurationLen == 4

\* the duration strings handed to parseInterval: the strings of at most
\* MaxDurationLen characters over digits, a dash and a letter, and two
\* durations a model writes
DurationStrings ==
  UNION {[1..n -> {"0", "3", "4", "-", "m"}] : n \in 0..MaxDurationLen}
  \cup {<<"3", "0", "-", "4", "5">> \o MinutesSuffix,
        <<"1", " ", "h", "o", "u", "r", " ", "3", "0", " ", "m", "i", "n">>,
        <<"1", "-">> \o [k \in 1..21 |-> "0"] \o <<"m">>}

\* the muscle lists handed to validateMuscleGroups
MuscleLists == UNION {[1..n -> {"chest", "back", "wings"}] : n \in 0..2}

\* ------------------------------------------------ today's workout, two views
\* workouts.find(w => w.day_of_week === day) ?? null: the position of the first
\* workout of that day, 0 for null
FindWorkout(days, day) ==
  IF Includes(days, day)
  THEN CHOOSE i \in DOMAIN days : days[i] = day /\ \A k \in 1..(i - 1) : days[k] # day
  ELSE 0

\* part_003 fetchDashboardData: todayNum, isRestDay and todayWorkout
DashboardToday(getDay, rest_days, days) ==
  LET todayNum == IF getDay = 0 THEN 7 ELSE getDay
      isRestDay == Includes(rest_days, todayNum)
  IN [today |-> todayNum, isRestDay |-> isRestDay,
      workout |-> IF ~isRestDay THEN FindWorkout(days, todayNum) ELSE 0]

\* part_006 getTodayWorkout, with its day number and rest-day test
getTodayWorkout(getDay, restDays, days) ==
  LET today == getDay + 1
  IN [today |-> today, isRestDay |-> Includes(restDays, today),
      workout |-> IF Includes(restDays, today) THEN 0 ELSE FindWorkout(days, today)]

\* stored plans: rest_days and the day_of_week of each workout
StoredPlans ==
  {[rest_days |-> <<1, 7>>, days |-> <<2, 3, 4, 5, 6>>],
   [rest_days |-> <<>>, days |-> <<1, 2, 3, 4, 5, 6, 7>>],
   [rest_days |-> <<3, 5>>, days |-> <<1, 2, 4, 6, 7>>]}

\* validateRestDays applied to one drawn daysPerWeek, under every shuffle;
\* parseInterval applied to one drawn duration; validateMuscleGroups applied
\* to one drawn list; both views of today's workout computed for one drawn
\* weekday (Date.prototype.getDay, 0 for Sunday) and stored plan
ProbeInputs ==
  {[fn |-> "validateRestDays", v |-> v, daysPerWeek |-> Num(d), done |-> FALSE,
    threw |-> FALSE, result |-> <<>>] : v \in {"route", "part_000"}, d \in 0..8}
  \cup {[fn |-> "parseInterval", v |-> v, duration |-> duration, done |-> FALSE,
         result |-> <<>>] : v \in {"route", "part_000"}, duration \in DurationStrings}
  \cup {[fn |-> "validateMuscleGroups", v |-> "route", muscles |-> muscles,
         done |-> FALSE, result |-> <<>>] : muscles \in MuscleLists}
  \cup {[fn |-> "today", getDay |-> d, plan |-> plan, done |-> FALSE, result |-> <<>>] :
          d \in 0..6, plan \in StoredPlans}

InitProbe == InitRequests({}) /\ env /\ probe \in ProbeInputs

ApplyValidateRestDays ==
  /\ probe.fn = "validateRestDays" /\ ~probe.done
  /\ \E shuffled \in Shuffles :
       LET res == IF probe.v = "route"
                  THEN [ok |-> TRUE,
                        v |-> validateRestDays_route(probe.daysPerWeek, shuffled)]
                  ELSE validateRestDays_000(probe.daysPerWeek, shuffled)
       IN probe' = [probe EXCEPT !.done = TRUE, !.threw = ~res.ok, !.result = res.v]
  /\ UNCHANGED <<configVars, pc, validRestDays, planContent, workoutPlan, ins,
                 saveState, response, profileLookups, generationCalls, storeVars,
                 clientVars>>

ApplyParseInterval ==
  /\ probe.fn = "parseInterval" /\ ~probe.done
  /\ probe' = [probe EXCEPT !.done = TRUE,
                !.result = IF probe.v = "route" THEN parseInterval_route(probe.duration)
                           ELSE parseInterval_000(probe.duration)]
  /\ UNCHANGED <<configVars, pc, validRestDays, planContent, workoutPlan, ins,
                 saveState, response, profileLookups, generationCalls, storeVars,
                 clientVars>>

ApplyValidateMuscleGroups ==
  /\ probe.fn = "validateMuscleGroups" /\ ~probe.done
  /\ probe' = [probe EXCEPT !.done = TRUE,
                !.result = validateMuscleGroups_route(probe.muscles)]
  /\ UNCHANGED <<configVars, pc, validRestDays, planContent, workoutPlan, ins,
                 saveState, response, profileLookups, generationCalls, storeVars,
                 clientVars>>

ApplyToday ==
  /\ probe.fn = "today" /\ ~probe.done
  /\ probe' = [probe EXCEPT !.done = TRUE,
                !.result = [dashboard |-> DashboardToday(probe.getDay, probe.plan.rest_days,
                                                          probe.plan.days),
                            planView |-> getTodayWorkout(probe.getDay, probe.plan.rest_days,
                                                         probe.plan.days)]]
  /\ UNCHANGED <<configVars, pc, validRestDays, planContent, workoutPlan, ins,
                 saveState, response, profileLookups, generationCalls, storeVars,
                 clientVars>>

NextProbe ==
  \/ ApplyValidateRestDays
  \/ ApplyParseInterval
  \/ ApplyValidateMuscleGroups
  \/ ApplyToday

SpecProbe == InitProbe /\ [][NextProbe]_vars

\* -------------------------------------------- the plan generator component
\* the signed-in user of the component
SessionUser == BaseBody.userId

\* .eq('user_id', ...).eq('is_active', true).single(): the row when exactly
\* one matches, else no data and error PGRST116
SingleActivePlan(userId) ==
  LET rows == {row \in workout_plans : row.user_id = userId /\ row.is_active}
  IN IF Cardinality(rows) = 1
     THEN [data |-> TRUE, row |-> CHOOSE row \in rows : TRUE]
     ELSE [data |-> FALSE, code |-> "PGRST116"]

\* the effect on [session, supabase] starts checkActivePlans: the select is sent
CheckActivePlans ==
  /\ generator.check = "idle"
  /\ generator' = [generator EXCEPT !.check = "selecting"]
  /\ UNCHANGED <<configVars, pc, validRestDays, planContent, workoutPlan, ins,
                 saveState, response, profileLookups, generationCalls, storeVars,
                 probe, planView, workout_logs, clock>>

\* the select of checkActivePlans answers, or fails with another error
ActivePlanSelectReturns ==
  /\ generator.check = "selecting"
  /\ \E failed \in BOOLEAN :
       LET activePlan == SingleActivePlan(SessionUser)
       IN generator' =
            IF failed
            THEN [generator EXCEPT !.check = "done", !.checkingPlans = FALSE,
                                   !.message = "error"]
            ELSE [generator EXCEPT !.check = "done", !.checkingPlans = FALSE,
                                   !.hasActivePlan = activePlan.data,
                                   !.message = IF activePlan.data THEN "warning" ELSE @]
  /\ UNCHANGED <<configVars, pc, validRestDays, planContent, workoutPlan, ins,
                 saveState, response, profileLookups, generationCalls, storeVars,
                 probe, planView, workout_logs, clock>>

\* the user fills the required fields of the form, which takes pointer events
\* only without an active plan
FillForm ==
  /\ ~generator.checkingPlans /\ ~generator.hasActivePlan
  /\ ~generator.formFilled
  /\ generator' = [generator EXCEPT !.formFilled = TRUE]
  /\ UNCHANGED <<configVars, pc, validRestDays, planContent, workoutPlan, ins,
                 saveState, response, profileLookups, generationCalls, storeVars,
                 probe, planView, workout_logs, clock>>

\* a click on Generate Plan, enabled as the button's disabled attribute says:
\* generateWorkoutPlan up to its fetch of /api/generate-workout
generateWorkoutPlan ==
  /\ ~generator.checkingPlans
  /\ ~(generator.loading \/ generator.hasActivePlan \/ ~generator.formFilled)
  /\ IF generator.hasActivePlan
     THEN generator' = [generator EXCEPT !.message = "warning"] /\ UNCHANGED pc
     ELSE IF ~generator.formFilled
     THEN generator' = [generator EXCEPT !.message = "error"] /\ UNCHANGED pc
     ELSE \E r \in Requests :
            /\ pc[r] = "idle" /\ \A q \in Requests : q < r => pc[q] # "idle"
            /\ body[r].userId = SessionUser
            /\ pc' = [pc EXCEPT ![r] = "received"]
            /\ generator' = [generator EXCEPT !.loading = TRUE, !.message = "none",
                                              !.fetching = r]
  /\ UNCHANGED <<configVars, validRestDays, planContent, workoutPlan, ins,
                 saveState, response, profileLookups, generationCalls, storeVars,
                 probe, planView, workout_logs, clock>>

\* the fetch resolves with the handler's response
FetchReturns ==
  /\ generator.loading /\ generator.fetching \in Requests
  /\ pc[generator.fetching] = "responded"
  /\ LET result == response[generator.fetching]
     IN generator' =
          IF result.status \in 200..299 /\ result.success
          THEN [generator EXCEPT !.loading = FALSE, !.message = "success",
                                 !.formFilled = FALSE, !.fetching = 0]
          ELSE [generator EXCEPT !.loading = FALSE, !.message = "error",
                                 !.fetching = 0]
  /\ UNCHANGED <<configVars, pc, validRestDays, planContent, workoutPlan, ins,
                 saveState, response, profileLookups, generationCalls, storeVars,
                 probe, planView, workout_logs, clock>>

\* one mounted generator of one user, in front of one revision of the handler
InitGenerator ==
  /\ InitServing({}, Requests) /\ env /\ probe = NoProbe
  /\ \A r \in Requests : body[r] = BaseBody /\ variant[r] = variant[1]

NextGenerator ==
  \/ CheckActivePlans
  \/ ActivePlanSelectReturns
  \/ FillForm
  \/ generateWorkoutPlan
  \/ FetchReturns
  \/ Next

SpecGenerator == InitGenerator /\ [][NextGenerator]_vars

\* ----------------------------------------- the plan view: handleLogWorkout
LastDay == 2

\* the workout the Log Today's Workout button of the plan view is about
LoggedWorkout == NewId("workouts", 1, 1, 0)

\* .eq('workout_id', ...).eq('user_id', ...).gte('completed_at', today).single():
\* data only when exactly one row matches
ExistingLog(today) ==
  Cardinality({row \in workout_logs :
                 /\ row.workout_id = LoggedWorkout /\ row.user_id = SessionUser
                 /\ row.completed_at >= today}) = 1

SetCall(k, call) == [planView EXCEPT !.call[k] = call]

\* handleLogWorkout up to its first await: today is taken, the select is sent
handleLogWorkout(k) ==
  /\ planView.call[k].pc = "idle"
  /\ planView' = SetCall(k, [pc |-> "selecting", today |-> clock])
  /\ UNCHANGED <<configVars, pc, validRestDays, planContent, workoutPlan, ins,
                 saveState, response, profileLookups, generationCalls, storeVars,
                 probe, generator, workout_logs, clock>>

\* the select answers: with a log, the call stops with the message; without,
\* the insert is sent
LogSelectReturns(k) ==
  /\ planView.call[k].pc = "selecting"
  /\ planView' =
       IF ExistingLog(planView.call[k].today)
       THEN [SetCall(k, [planView.call[k] EXCEPT !.pc = "done"])
               EXCEPT !.error = "already logged"]
       ELSE SetCall(k, [pc |-> "inserting", today |-> planView.call[k].today,
                        completed_at |-> clock])
  /\ UNCHANGED <<configVars, pc, validRestDays, planContent, workoutPlan, ins,
                 saveState, response, profileLookups, generationCalls, storeVars,
                 probe, generator, workout_logs, clock>>

\* the insert answers: the row is stored, or the store reports an error
LogInsertReturns(k) ==
  /\ planView.call[k].pc = "inserting"
  /\ \E ok \in BOOLEAN :
       IF ok
       THEN /\ workout_logs' = workout_logs \cup
                 {[id |-> k, user_id |-> SessionUser, workout_id |-> LoggedWorkout,
                   completed_at |-> planView.call[k].completed_at]}
            /\ planView' = [SetCall(k, [planView.call[k] EXCEPT !.pc = "done"])
                              EXCEPT !.error = "none"]
       ELSE /\ UNCHANGED workout_logs
            /\ planView' = [SetCall(k, [planView.call[k] EXCEPT !.pc = "done"])
                              EXCEPT !.error = "failed"]
  /\ UNCHANGED <<configVars, pc, validRestDays, planContent, workoutPlan, ins,
                 saveState, response, profileLookups, generationCalls, storeVars,
                 probe, generator, clock>>

\* midnight passes
NextDay ==
  /\ clock < LastDay
  /\ clock' = clock + 1
  /\ UNCHANGED <<configVars, pc, validRestDays, planContent, workoutPlan, ins,
                 saveState, response, profileLookups, generationCalls, storeVars,
                 probe, generator, planView, workout_logs>>

\* the plan view of one user, no log stored yet
InitLog == InitRequests({}) /\ env /\ probe = NoProbe

NextLog ==
  \/ \E k \in Invocations :
       handleLogWorkout(k) \/ LogSelectReturns(k) \/ LogInsertReturns(k)
  \/ NextDay

SpecLog == InitLog /\ [][NextLog]_vars

\* ================================================================ claims
GoalsOf(r) == {row \in fitness_goals : row.id.r = r}
PlansOf(r) == {row \in workout_plans : row.id.r = r}
WorkoutsOf(r) == {row \in workouts : row.id.r = r}
ExercisesOf(r) == {row \in exercises : row.id.r = r}
NoRowsOf(r) ==
  GoalsOf(r) = {} /\ PlansOf(r) = {} /\ WorkoutsOf(r) = {} /\ ExercisesOf(r) = {}

\* the exercises of a parsed plan, as (workout, exercise) positions
ExercisePositions(plan) ==
  UNION {{<<i, j>> : j \in DOMAIN plan.workouts[i].exercises} : i \in DOMAIN plan.workouts}

InsertStatuses(x) ==
  {x.goal, x.plan} \cup Range(x.w) \cup UNION {Range(x.e[i]) : i \in DOMAIN x.e}
  \cup Range(x.batch)

\* C1: a success response for a plan of W workouts and E exercises means that the
\* store holds exactly 1 goal row, 1 plan row, W workout rows and E exercise rows
\* of the request, and that the response's plan.workouts is W.
CE_C1 ==
  \A r \in Requests :
    response[r].success =>
      /\ Cardinality(GoalsOf(r)) = 1
      /\ Cardinality(PlansOf(r)) = 1
      /\ Cardinality(WorkoutsOf(r)) = Len(workoutPlan[r].workouts)
      /\ Cardinality(ExercisesOf(r)) = Cardinality(ExercisePositions(workoutPlan[r]))
      /\ response[r].workouts = Num(Len(workoutPlan[r].workouts))

\* C2: in the revisions with withTimeout, a generation call that has not
\* resolved when the timer fires is answered 504 and has written no row.
CE_C2 ==
  [][\A r \in Requests :
       GenerationTimeout(r) => (response'[r].status = 504 /\ NoRowsOf(r)')]_vars

\* no part of the text, the whole text included, decodes as a JSON object
NoDecodableSubstring(toks) ==
  \A a \in DOMAIN toks : \A b \in a..Len(toks) : ~JSONParse(SubSeq(toks, a, b)).ok

IsParseErrorMessage(message) ==
  \/ message = SyntaxErrorMessage
  \/ Len(message) > Len(FailedToParsePrefix)
     /\ SubSeq(message, 1, Len(FailedToParsePrefix)) = FailedToParsePrefix

CE_C4 ==
  \A r \in Requests :
    ( /\ env
      /\ pc[r] \notin {"idle", "received"}
      /\ ~( /\ ValidDaysPerWeek(body[r]) /\ ValidDurationWeeks(body[r])
            /\ ValidFocusMuscles(body[r]) /\ ValidWorkoutType(body[r]) ) )
    => /\ pc[r] = "responded"
       /\ response[r].status = 400
       /\ profileLookups[r] = 0 /\ generationCalls[r] = 0
       /\ ins[r] = NoInserts

\* C5: in part_000 and part_001, a model output that decodes but violates the
\* plan shape is answered 500, and 400 "Invalid request data" is only answered
\* before any generation call.
DecodesButViolatesShape(v, text) ==
  LET decoded == JSONParse(StripFences(text))
  IN /\ decoded.ok
     /\ IF v = "part_000" THEN ~WorkoutPlanSchema_000(PlanOf(decoded.val))
        ELSE ~WorkoutPlanSchema_001(PlanOf(decoded.val))

CE_C5 ==
  \A r \in Requests :
    (variant[r] \in {"part_000", "part_001"} /\ pc[r] = "responded") =>
      /\ (planContent[r] # <<>> /\ DecodesButViolatesShape(variant[r], planContent[r]))
           => response[r].status = 500
      /\ response[r] = InvalidRequestData => generationCalls[r] = 0

\* C6: in route.ts and part_001, a profile lookup that returns an error or no row
\* is answered 404, with no generation call and no row written.
CE_C6 ==
  [][\A r \in Requests :
       (ProfileReturns(r) /\ pc'[r] = "responded") =>
         /\ response'[r].status = 404
         /\ response'[r].error # <<>>
         /\ generationCalls'[r] = 0
         /\ NoRowsOf(r)']_vars

\* C7: once an insert of a request has failed, the handler starts no further
\* insert of that request, and its response is an error whose message names
\* the failing step.
AnyInsertFailed(x) == "err" \in InsertStatuses(x)

NamesFailedStep(message) ==
  /\ Len(message) >= 3
  /\ SubSeq(message, 1, 3) = <<"Failed", "to", "create">>

NewlyIssued(x, y) ==
  \/ \E t \in {"goal", "plan"} : y[t] = "inflight" /\ x[t] # "inflight"
  \/ \E i \in DOMAIN y.w : y.w[i] = "inflight" /\ x.w[i] # "inflight"
  \/ \E i \in DOMAIN y.e : \E j \in DOMAIN y.e[i] :
       y.e[i][j] = "inflight" /\ x.e[i][j] # "inflight"

CE_C7 ==
  [][\A r \in Requests :
       /\ AnyInsertFailed(ins[r]) => ~NewlyIssued(ins[r], ins'[r])
       /\ response'[r].success => ~AnyInsertFailed(ins'[r])
       /\ (pc[r] = "persisting" /\ ~AnyInsertFailed(ins[r]) /\ AnyInsertFailed(ins'[r]))
            => /\ pc'[r] = "responded"
               /\ ~response'[r].success
               /\ NamesFailedStep(response'[r].error)]_vars

\* C8: within a request, the plan insert is issued only after the goal insert
\* has returned its row, a workout insert only after the plan insert has returned
\* its row, and an exercise insert only after the insert of its own workout has
\* returned the row whose id the exercise references.
Ids(tbl) == {row.id : row \in tbl}

Thm_C8 ==
  \A r \in Requests :
    /\ ins[r].plan # "none" =>
         (ins[r].goal = "ok" /\ PlanRow(r).goal_id \in Ids(fitness_goals))
    /\ \A i \in DOMAIN ins[r].w :
         ins[r].w[i] # "none" =>
           (ins[r].plan = "ok" /\ WorkoutRow(r, i).plan_id \in Ids(workout_plans))
    /\ \A i \in DOMAIN ins[r].e : \A j \in DOMAIN ins[r].e[i] :
         ins[r].e[i][j] # "none" =>
           (ins[r].w[i] = "ok" /\ ExerciseRow(r, i, j).workout_id \in Ids(workouts))
    /\ \A i \in DOMAIN ins[r].batch :
         ins[r].batch[i] # "none" =>
           (ins[r].w[i] = "ok" /\ NewId("workouts", r, i, 0) \in Ids(workouts))

\* part_000: an exercise of workout 2 is in flight while workout 1 still is
W_C8 ==
  \E r \in Requests :
    /\ variant[r] = "part_000"
    /\ Len(ins[r].w) = 2
    /\ ins[r].w[1] = "inflight"
    /\ ins[r].w[2] = "ok"
    /\ ins[r].e[2][1] = "inflight"

\* C9: for an integer daysPerWeek in 1..7 and any shuffle, validateRestDays
\* returns 7 - daysPerWeek integers of 1..7 in strictly ascending order (hence
\* without duplicates), and the empty list for 7.
Thm_C9 ==
  ( /\ probe.fn = "validateRestDays" /\ probe.done
    /\ IsInteger(probe.daysPerWeek)
    /\ probe.daysPerWeek.twice \in {2 * d : d \in 1..7} )
  => /\ ~probe.threw
     /\ 2 * Len(probe.result) = 14 - probe.daysPerWeek.twice
     /\ \A k \in DOMAIN probe.result : probe.result[k] \in 1..7
     /\ \A k \in 1..(Len(probe.result) - 1) : probe.result[k] < probe.result[k + 1]
     /\ (probe.daysPerWeek = Num(7) => probe.result = <<>>)

\* four training days, and a rest-day set that is no prefix of 1..7
W_C9 ==
  /\ probe.fn = "validateRestDays" /\ probe.done
  /\ probe.v = "part_000"
  /\ probe.daysPerWeek = Num(4)
  /\ probe.result = <<2, 5, 7>>

\* C10: for a successful request (with a valid daysPerWeek) the rest_days of the
\* stored plan are the rest days the handler derived and put into the prompt,
\* so daysPerWeek + |rest_days| = 7.
CE_C10 ==
  \A r \in Requests :
    (response[r].success /\ ValidDaysPerWeek(body[r])) =>
      \A row \in PlansOf(r) :
        /\ row.rest_days = Arr([d \in DOMAIN validRestDays[r] |-> Num(validRestDays[r][d])])
        /\ body[r].daysPerWeek.twice + 2 * Len(row.rest_days.a) = 14

\* the plan a text decodes to, when the text (without fences) is one JSON object
Decodes(text) == JSONParse(StripFences(text)).ok
DecodedPlan(text) == PlanOf(JSONParse(StripFences(text)).val)

\* the decoded plan breaks no rule once the muscles outside the vocabulary are
\* dropped, and has such muscles
OnlyMusclesInvalid(text) ==
  /\ Decodes(text)
  /\ LET plan == DecodedPlan(text)
     IN /\ plan.hasWorkouts
        /\ \A i \in DOMAIN plan.workouts :
             /\ plan.workouts[i].hasExercises
             /\ \A j \in DOMAIN plan.workouts[i].exercises :
                  /\ IsArray(plan.workouts[i].exercises[j].primary_muscles)
                  /\ IsArray(plan.workouts[i].exercises[j].secondary_muscles)
        /\ \E i \in DOMAIN plan.workouts : \E j \in DOMAIN plan.workouts[i].exercises :
             \/ ~IsMuscleArray(plan.workouts[i].exercises[j].primary_muscles)
             \/ ~IsMuscleArray(plan.workouts[i].exercises[j].secondary_muscles)
        /\ WorkoutPlanSchema_000([plan EXCEPT !.workouts =
             [i \in DOMAIN plan.workouts |-> RepairWorkout(plan.workouts[i])]])

\* C11: in route.ts and part_000, a plan whose only fault is a muscle outside
\* the vocabulary (each exercise keeping a valid primary muscle) passes plan
\* validation, and the plan handed to the inserts holds vocabulary muscles only.
CE_C11 ==
  [][\A r \in Requests :
       ( /\ ParsePlan(r)
         /\ variant[r] \in {"route", "part_000"}
         /\ OnlyMusclesInvalid(planContent[r]) )
       => /\ pc'[r] = "persisting"
          /\ \A i \in DOMAIN workoutPlan'[r].workouts :
               \A j \in DOMAIN workoutPlan'[r].workouts[i].exercises :
                 /\ IsMuscleArray(workoutPlan'[r].workouts[i].exercises[j].primary_muscles)
                 /\ IsMuscleArray(workoutPlan'[r].workouts[i].exercises[j].secondary_muscles)
    ]_vars

\* the decoded plan has no workout, or a workout of more than five exercises
NoWorkoutOrTooManyExercises(text) ==
  /\ Decodes(text)
  /\ LET plan == DecodedPlan(text)
     IN /\ plan.hasWorkouts
        /\ \/ Len(plan.workouts) = 0
           \/ \E i \in DOMAIN plan.workouts :
                Len(plan.workouts[i].exercises) > MaxSchemaExercises

\* C12: in route.ts and part_000, a decoded plan without workouts or with a
\* workout of more than 5 exercises ends the request in an error response, and
\* no insert is issued for it.
CE_C12 ==
  [][\A r \in Requests :
       ( /\ ParsePlan(r)
         /\ variant[r] \in {"route", "part_000"}
         /\ NoWorkoutOrTooManyExercises(planContent[r]) )
       => /\ pc'[r] = "responded"
          /\ ~response'[r].success /\ response'[r].status >= 400
          /\ ins'[r] = NoInserts
    ]_vars

\* "<N> minutes" with N a positive integer in decimal notation
IsPositiveMinutes(chars) ==
  LET k == Len(chars) - Len(MinutesSuffix)
  IN /\ k >= 1
     /\ SubSeq(chars, k + 1, Len(chars)) = MinutesSuffix
     /\ \A i \in 1..k : IsDigit(chars[i])
     /\ chars[1] # "0"

\* what the claim says is stored for a duration the model wrote
ExpectedDuration(stored, written) ==
  /\ IsPositiveMinutes(stored)
  /\ (written = DurationNinetySec => stored = <<"9", "0">> \o MinutesSuffix)
  /\ (StripNonDigits(written) = <<>> => stored = ThirtyMinutes)
  /\ (StripNonDigits(written) # <<>> /\ DigitsValue(StripNonDigits(written)) = 0
        => stored = ThirtyMinutes)

\* C13: every estimated_duration and rest_duration that route.ts and part_000
\* store is "<N> minutes" with N positive; "90 sec" is stored as "90 minutes",
\* a duration without digits or of value 0 as "30 minutes".
CE_C13 ==
  \A r \in Requests :
    variant[r] \in {"route", "part_000"} =>
      /\ \A row \in WorkoutsOf(r) :
           ExpectedDuration(row.estimated_duration.chars,
                            workoutPlan[r].workouts[row.id.i].estimated_duration.chars)
      /\ \A row \in ExercisesOf(r) :
           ExpectedDuration(row.rest_duration.chars,
             workoutPlan[r].workouts[row.id.i].exercises[row.id.j].rest_duration.chars)

\* C14: in every revision the handler leaves the await of the generation call,
\* also when the generation service never answers.
CE_C14 == \A r \in Requests : (pc[r] = "generating") ~> (pc[r] # "generating")

\* the active plans stored for a user
ActivePlansOf(userId) == {row \in workout_plans : row.user_id = userId /\ row.is_active}

\* C15: two concurrent requests of one user do not exclude each other: whenever
\* both have been answered with success, the user has two active plans, one
\* stored by each request.
Thm_C15 ==
  ( (\A r \in Requests : response[r].success)
    /\ (\A r \in Requests : body[r].userId = body[1].userId) )
  => /\ Cardinality(ActivePlansOf(body[1].userId)) = Cardinality(Requests)
     /\ \A r \in Requests : \E row \in ActivePlansOf(body[1].userId) : row.id.r = r

\* both requests of the user have been answered with success
W_C15 ==
  /\ \A r \in Requests : pc[r] = "responded" /\ response[r].success
  /\ body[1].userId = body[2].userId
  /\ Cardinality(ActivePlansOf(body[1].userId)) = 2

\* C16: for every successful request with a valid body, in every revision, the plan row holds the
\* request's durationWeeks, and the goal row has target date = issue time +
\* durationWeeks weeks, status "active" and the request's workout type, focus
\* muscles and days per week.
CE_C16 ==
  \A r \in Requests :
    (response[r].success /\ RequestBodySchema_000(body[r])) =>
      /\ \A row \in PlansOf(r) : row.duration_weeks = body[r].durationWeeks
      /\ \A row \in GoalsOf(r) :
           /\ row.target_date = [issuedPlusWeeks |-> body[r].durationWeeks]
           /\ row.status = "active"
           /\ row.specific_targets.workout_type = body[r].workoutType
           /\ row.specific_targets.focus_muscles = body[r].focusMuscles.a
           /\ row.specific_targets.days_per_week = body[r].daysPerWeek

\* C17: every exercises row references a workouts row of its own request, every
\* workouts row the workout_plans row of its own request, and every plan the
\* fitness_goals row of its own request, which has the plan's user_id.
Thm_C17 ==
  /\ \A row \in exercises :
       \E parent \in workouts : parent.id = row.workout_id /\ parent.id.r = row.id.r
  /\ \A row \in workouts :
       \E parent \in workout_plans : parent.id = row.plan_id /\ parent.id.r = row.id.r
  /\ \A row \in workout_plans :
       \E parent \in fitness_goals :
         /\ parent.id = row.goal_id /\ parent.id.r = row.id.r
         /\ parent.user_id = row.user_id

\* both requests are writing at once, each with exercises stored
W_C17 ==
  /\ \A r \in Requests : pc[r] = "persisting" /\ ExercisesOf(r) # {}
  /\ \E r \in Requests : \E i \in DOMAIN ins[r].w : ins[r].w[i] = "inflight"

\* the decoded plan's restDays is not an array of one to seven integers of 1..7
RestDaysOutOfContract(text) ==
  /\ Decodes(text)
  /\ LET restDays == DecodedPlan(text).restDays
     IN \/ ~IsArray(restDays)
        \/ Len(restDays.a) = 0
        \/ Len(restDays.a) > 7
        \/ \E d \in DOMAIN restDays.a :
             \/ ~IsInteger(restDays.a[d])
             \/ restDays.a[d].twice < 2
             \/ restDays.a[d].twice > 14

\* C18: in route.ts, part_000 and part_001, a decoded plan whose restDays is
\* not an array of 1 to 7 integers, each in 1..7 (an empty array, more than 7
\* entries, a non-integer, a value out of range), ends the request in an error
\* response, and no insert is issued for it.
CE_C18 ==
  [][\A r \in Requests :
       ( /\ ParsePlan(r)
         /\ variant[r] \in {"route", "part_000", "part_001"}
         /\ RestDaysOutOfContract(planContent[r]) )
       => /\ pc'[r] = "responded"
          /\ ~response'[r].success
          /\ ins'[r] = NoInserts
    ]_vars

\* a positive integer value
IsPositiveInteger(x) == IsInteger(x) /\ x.twice >= 2

\* C19: whatever the model returned, every exercises row stored by route.ts and
\* part_002 has positive integer sets and reps, a non-negative integer
\* order_in_workout, at least one primary muscle and only vocabulary muscles;
\* every workouts row has day_of_week in 1..7 and comes from a workout of 1 to
\* 5 exercises.
CE_C19 ==
  \A r \in Requests :
    variant[r] \in {"route", "part_002"} =>
      /\ \A row \in ExercisesOf(r) :
           /\ IsPositiveInteger(row.sets)
           /\ IsPositiveInteger(row.reps)
           /\ IsInteger(row.order_in_workout) /\ row.order_in_workout.twice >= 0
           /\ IsMuscleArray(row.primary_muscles)
           /\ Len(row.primary_muscles.a) >= 1
           /\ IsMuscleArray(row.secondary_muscles)
      /\ \A row \in WorkoutsOf(r) :
           /\ IsInteger(row.day_of_week)
           /\ row.day_of_week.twice \in {2 * d : d \in 1..7}
           /\ Len(workoutPlan[r].workouts[row.id.i].exercises) \in 1..MaxSchemaExercises

\* the first maximal run of digits of a string, empty when it has no digit
RECURSIVE LeadingDigits(_)
LeadingDigits(chars) ==
  IF chars = <<>> \/ ~IsDigit(Head(chars)) THEN <<>>
  ELSE <<Head(chars)>> \o LeadingDigits(Tail(chars))

RECURSIVE FirstDigitGroup(_)
FirstDigitGroup(chars) ==
  IF chars = <<>> THEN <<>>
  ELSE IF IsDigit(Head(chars)) THEN LeadingDigits(chars)
  ELSE FirstDigitGroup(Tail(chars))

\* C20: parseInterval of route.ts and part_000 normalises a duration by its
\* first embedded integer: for a duration whose first group of digits has a
\* positive value N, the result is "<N> minutes" ("30-45 minutes" gives
\* "30 minutes", "1 hour 30 min" gives "1 minutes").
CE_C20 ==
  ( /\ probe.fn = "parseInterval" /\ probe.done
    /\ DigitsValue(FirstDigitGroup(probe.duration)) > 0 )
  => probe.result =
       NumberToString(DigitsValue(FirstDigitGroup(probe.duration))) \o MinutesSuffix

\* text is prose, then a complete plan object that passes route.ts's plan
\* validation and has a workout with an exercise, then prose
ProseAroundPlan(text, a, b) ==
  /\ a > 1 \/ b < Len(text)
  /\ \A k \in (1..(a - 1)) \cup ((b + 1)..Len(text)) : text[k] = Prose
  /\ JSONParse(SubSeq(text, a, b)).ok
  /\ parseWorkoutPlanJSON(SubSeq(text, a, b)).ok
  /\ \E i \in DOMAIN DecodedPlan(SubSeq(text, a, b)).workouts :
       Len(DecodedPlan(SubSeq(text, a, b)).workouts[i].exercises) > 0

\* C21: in route.ts, when the cleaned model text is a complete valid plan
\* object, with workouts and their exercises, surrounded by prose, the recovery
\* step decodes the whole plan object and the request moves on to persistence
\* with that plan.
CE_C21 ==
  [][\A r \in Requests :
       \A a, b \in DOMAIN StripFences(planContent[r]) :
         ( /\ ParsePlan(r)
           /\ variant[r] = "route"
           /\ a < b
           /\ ProseAroundPlan(StripFences(planContent[r]), a, b) )
         => /\ pc'[r] = "persisting"
            /\ workoutPlan'[r] =
                 parseWorkoutPlanJSON(SubSeq(StripFences(planContent[r]), a, b)).plan
    ]_vars

\* C22: semantic repair is idempotent: parseInterval applied to its own result
\* returns that result, in route.ts and part_000, and validateMuscleGroups of
\* route.ts applied to its own result returns that result.
CE_C22 ==
  /\ (probe.fn = "parseInterval" /\ probe.done)
       => (IF probe.v = "route" THEN parseInterval_route(probe.result)
           ELSE parseInterval_000(probe.result)) = probe.result
  /\ (probe.fn = "validateMuscleGroups" /\ probe.done)
       => validateMuscleGroups_route(probe.result) = probe.result

\* C23: the handler only inserts: no step removes or changes a row of
\* fitness_goals, workout_plans, workouts or exercises, so the rows a request
\* inserted before one of its inserts failed are still there, unchanged, after
\* its error response.
Thm_C23 ==
  [][ /\ fitness_goals \subseteq fitness_goals'
      /\ workout_plans \subseteq workout_plans'
      /\ workouts \subseteq workouts'
      /\ exercises \subseteq exercises' ]_vars

\* a request has been answered with an error after its plan insert failed, and
\* its goal row is in the store
W_C23 ==
  \E r \in Requests :
    /\ pc[r] = "responded" /\ ~response[r].success
    /\ ins[r].goal = "ok" /\ ins[r].plan = "err"
    /\ GoalRow(r) \in fitness_goals

\* the calls a request has made so far respect the order of the stages
StagesInOrder(r) ==
  /\ ~env => /\ profileLookups[r] = 0 /\ generationCalls[r] = 0 /\ ins[r] = NoInserts
             /\ pc[r] \in {"idle", "received", "responded"}
             /\ pc[r] = "responded" =>
                  response[r] = CatchResponse(variant[r],
                                  Exception("Error", MissingEnvMessage(variant[r])))
  /\ profileLookups[r] > 0 => ValidateBody(variant[r], body[r]) = NoResponse
  /\ generationCalls[r] > 0 =>
       /\ ValidateBody(variant[r], body[r]) = NoResponse
       /\ ConsultsProfile(variant[r]) => profileLookups[r] = 1
  /\ ins[r] # NoInserts => generationCalls[r] = 1 /\ workoutPlan[r] # NoPlan
  /\ profileLookups[r] <= 1 /\ generationCalls[r] <= 1

\* C24: per request the stages run in order (configuration check, inbound
\* validation, profile lookup, prompt, generation call, parsing, persistence,
\* response): no call of a stage is made unless the earlier stages succeeded,
\* with a missing configuration value the error is answered without any call,
\* and once the response is produced it is the only one and no further call
\* is issued for the request.
CE_C24 ==
  [][\A r \in Requests :
       /\ StagesInOrder(r)'
       /\ pc[r] = "responded" =>
            /\ response'[r] = response[r] /\ pc'[r] = "responded"
            /\ profileLookups'[r] = profileLookups[r]
            /\ generationCalls'[r] = generationCalls[r]
            /\ ~NewlyIssued(ins[r], ins'[r])
            /\ \A i \in DOMAIN ins'[r].batch :
                 ins'[r].batch[i] = "inflight" => ins[r].batch[i] = "inflight"
    ]_vars

\* C25: in part_000 and part_002, a response of status 504 comes from the
\* deadline of the generation call only: the persistence stage of that request
\* has not started and the request has written no rows; a failure or deadline
\* overrun of the persistence stage is answered with status 500.
CE_C25 ==
  \A r \in Requests :
    variant[r] \in {"part_000", "part_002"} =>
      /\ (pc[r] = "responded" /\ response[r].status = 504) =>
           (ins[r] = NoInserts /\ NoRowsOf(r))
      /\ (pc[r] = "responded" /\ ~response[r].success /\ ins[r] # NoInserts) =>
           response[r].status = 500

\* C26: in part_001 and part_002, for an integer daysPerWeek of 1..7 and any
\* outcome of the shuffle, the rest days put into the prompt are
\* 7 - daysPerWeek integers of 1..7 in strictly ascending order (hence without
\* duplicates).
CE_C26 ==
  \A r \in Requests :
    ( /\ variant[r] \in {"part_001", "part_002"}
      /\ generationCalls[r] > 0
      /\ IsInteger(body[r].daysPerWeek)
      /\ body[r].daysPerWeek.twice \in {2 * d : d \in 1..7} )
    => /\ 2 * Len(validRestDays[r]) = 14 - body[r].daysPerWeek.twice
       /\ \A d \in DOMAIN validRestDays[r] : validRestDays[r][d] \in 1..7
       /\ \A d \in 1..(Len(validRestDays[r]) - 1) :
            validRestDays[r][d] < validRestDays[r][d + 1]

\* C27: once the handler has produced the response of a request, no row of
\* that request is added to the store; in particular the inserts still to come
\* when the deadline of the persistence stage fires are not carried out.
CE_C27 ==
  [][\A r \in Requests :
       pc[r] = "responded" =>
         /\ GoalsOf(r)' = GoalsOf(r)
         /\ PlansOf(r)' = PlansOf(r)
         /\ WorkoutsOf(r)' = WorkoutsOf(r)
         /\ ExercisesOf(r)' = ExercisesOf(r)
    ]_vars

\* C28: for a user acting through one mounted generator, with every request
\* sent so far answered with success: generateWorkoutPlan sends a generation
\* request only when the user has no active plan in the store (a call after a
\* successful generation is refused), and the user never has two plans with
\* is_active = true.
CE_C28 ==
  (\A q \in Requests : pc[q] = "responded" => response[q].success)
  => /\ \A r \in Requests :
          (generator.fetching = r /\ pc[r] = "received") =>
            ActivePlansOf(SessionUser) = {}
     /\ Cardinality(ActivePlansOf(SessionUser)) <= 1

\* C29: for every weekday and stored plan, the dashboard and the plan view
\* compute the same day-of-week number for today, and agree on whether today
\* is a rest day and on which workout is today's.
CE_C29 ==
  (probe.fn = "today" /\ probe.done) =>
    /\ probe.result.dashboard.today = probe.result.planView.today
    /\ probe.result.dashboard.isRestDay = probe.result.planView.isRestDay
    /\ probe.result.dashboard.workout = probe.result.planView.workout

\* the logs of the user for the workout, dated day
LogsOfDay(day) ==
  {row \in workout_logs :
     /\ row.user_id = SessionUser /\ row.workout_id = LoggedWorkout
     /\ row.completed_at = day}

\* C30: handleLogWorkout leaves at most one workout_logs row per user, workout
\* and calendar day, also when two invocations interleave their lookup and
\* their insert; when the lookup finds a log dated today, the call inserts
\* nothing and reports that the workout is already logged.
CE_C30 ==
  [][ /\ \A day \in 1..LastDay : Cardinality(LogsOfDay(day)') <= 1
      /\ \A k \in Invocations :
           ( /\ LogSelectReturns(k)
             /\ LogsOfDay(planView.call[k].today) # {} )
           => /\ planView'.call[k].pc = "done"
              /\ planView'.error = "already logged"
    ]_vars

====
